---- MODULE Spec2Model ----
(***************************************************************************)
(* A model of the chord-wheel-writer engine: the song store's editing      *)
(* operations (src/src/store/useSongStore.ts), the live audio engine       *)
(* (src/src/utils/audioEngine.ts) and the offline export                   *)
(* (src/src/utils/exportMidi.ts).                                          *)
(*                                                                         *)
(* Representation.  Ids (uuidv4 strings in the code) are positive          *)
(* integers drawn from a counter; 0 stands for "no id".  A nullable value  *)
(* is a sequence of length 0 (null) or 1.  A duration in beats is an       *)
(* integer count of 1/DurScale beats, so that the divisions the code makes *)
(* (4 / bottom, totalBeats / steps) are exact; the code computes them in   *)
(* IEEE doubles.  A note string such as "C#4" is the record                *)
(* [name |-> "C#", oct |-> 4]; oct = NoOct means the string has no digit.  *)
(***************************************************************************)
EXTENDS Integers, Sequences, FiniteSets, TLC

VARIABLES
    \* --- song store (useSongStore.ts) ---
    currentSong,        \* [tempo, timeSignature, sections]
    selectedSectionId,  \* 0 = null
    selectedSlotId,     \* 0 = null
    nextId,             \* the next id uuidv4 hands out
    opCount,            \* number of store operations applied so far
    selectedKey,        \* the key the wheel shows
    wheelRotation,      \* cumulative rotation of the wheel, in degrees
    wheelMode,          \* "fixed" or "rotating"
    tempo,              \* the store's own copy of the tempo
    \* --- audio engine (audioEngine.ts) ---
    instruments,        \* [InstrumentNames -> {"null", "obj"}]
    constructed,        \* [InstrumentNames -> how often its constructor ran]
    currentInstrument,
    ctxState,           \* Tone.context.state
    loadState,          \* the samples initAudio started loading
    calls,              \* [CallIds -> record]: the playChord invocations
    sounding,           \* [InstrumentNames -> number of voices sounding]
    triggerLog,         \* every triggerAttackRelease made, in order
    stops,              \* what the stopAudio calls made so far did
    transport,          \* the scheduler's clock and its pending triggers
    \* --- voicing (playChord's note mapping, as a pure function) ---
    voiceIn,
    voiceOut,
    \* --- offline export (exportMidi.ts) ---
    exp,
    midi,               \* what the last exportSongAsMidi call put on its track
    \* --- pure functions applied to drawn inputs ---
    wheelIn,            \* [key, position]: a wheel position seen from a key
    wheelOut,
    wavIn,              \* the buffer handed to audioBufferToWav
    wavOut,
    fxIn,               \* the effect settings handed to createEffectsChain
    fxOut,
    renderIn,           \* the arguments two offline exports are both given
    renderOut,          \* what each of the two exports produced
    \* --- auth store (authStore.ts) ---
    auth,               \* the store's state
    authProc            \* the initialize calls made and the listeners registered

keyVars == <<selectedKey, wheelRotation, wheelMode, tempo>>
storeVars == <<currentSong, selectedSectionId, selectedSlotId, nextId, opCount, keyVars>>
audioVars == <<instruments, constructed, currentInstrument, ctxState, loadState, calls,
               sounding, triggerLog, stops, transport>>
voiceVars == <<voiceIn, voiceOut>>
exportVars == <<exp, midi>>
probeVars == <<wheelIn, wheelOut, wavIn, wavOut, fxIn, fxOut, renderIn, renderOut>>
authVars == <<auth, authProc>>
vars == <<storeVars, audioVars, voiceVars, exportVars, probeVars, authVars>>

-----------------------------------------------------------------------------
(* Bounds of the model *)

\* store operations applied in one behaviour
MaxOps == 3
\* measure arguments address the first MaxTargetMeasure measures of a section
MaxTargetMeasure == 1
\* setMeasureSubdivision is asked for 1..MaxSteps steps
MaxSteps == 3
\* addSection / duplicateSection are offered while there are fewer sections
MaxSections == 3

\* one beat is DurScale duration units: every division the model's inputs
\* cause (4 / bottom for the signatures offered, then by 1..10 steps) is exact
DurScale == 16 * 315

-----------------------------------------------------------------------------
(* Generic helpers *)

Min(a, b) == IF a < b THEN a ELSE b
Max(a, b) == IF a > b THEN a ELSE b

RECURSIVE SumSeq(_)
SumSeq(s) == IF s = <<>> THEN 0 ELSE Head(s) + SumSeq(Tail(s))

RECURSIVE Flatten(_)
Flatten(ss) == IF ss = <<>> THEN <<>> ELSE Head(ss) \o Flatten(Tail(ss))

MapSeq(s, F(_)) == [i \in 1..Len(s) |-> F(s[i])]

-----------------------------------------------------------------------------
(* Song store: useSongStore.ts *)

NoId == 0
NoChord == <<>>

DEFAULT_TIME_SIGNATURE == <<4, 4>>

\* beatsFromSignature: top * (4 / bottom), or 4 when either number is falsy
beatsFromSignature(signature) ==
    LET top == signature[1]
        bottom == signature[2]
    IN  IF top = 0 \/ bottom = 0 THEN 4 * DurScale
        ELSE (top * 4 * DurScale) \div bottom

\* createEmptyMeasure: one rest beat spanning the measure; uses ids id0, id0+1
createEmptyMeasure(signature, id0) ==
    [id |-> id0,
     beats |-> <<[id |-> id0 + 1, chord |-> NoChord,
                  duration |-> beatsFromSignature(signature)]>>]

\* Array(4).fill(null).map(() => createEmptyMeasure(sig)), ids from id0 on
FourEmptyMeasures(signature, id0) ==
    [k \in 1..4 |-> createEmptyMeasure(signature, id0 + 2 * (k - 1))]

DEFAULT_SONG ==
    [title |-> "Untitled Song",
     key |-> "C",
     tempo |-> 120,
     timeSignature |-> <<4, 4>>,
     sections |-> <<
        [id |-> 1, name |-> <<"Verse 1">>, type |-> "verse",
         timeSignature |-> DEFAULT_TIME_SIGNATURE,
         measures |-> FourEmptyMeasures(DEFAULT_TIME_SIGNATURE, 3)],
        [id |-> 2, name |-> <<"Chorus">>, type |-> "chorus",
         timeSignature |-> DEFAULT_TIME_SIGNATURE,
         measures |-> FourEmptyMeasures(DEFAULT_TIME_SIGNATURE, 11)]>>]

\* the first id not used by DEFAULT_SONG
FirstFreeId == 19

SectionBeats(section) == Flatten(MapSeq(section.measures, LAMBDA m : m.beats))
SongBeats(sections) == Flatten(MapSeq(sections, SectionBeats))

\* ensureSelectionStillExists
ensureSelectionStillExists(sections, selSection, selSlot) ==
    IF selSlot = NoId \/ selSection = NoId
    THEN [selectedSectionId |-> selSection, selectedSlotId |-> selSlot]
    ELSE LET slotExists ==
                 \E i \in 1..Len(sections) :
                     /\ sections[i].id = selSection
                     /\ \E j \in 1..Len(sections[i].measures) :
                            \E k \in 1..Len(sections[i].measures[j].beats) :
                                sections[i].measures[j].beats[k].id = selSlot
         IN  IF slotExists
             THEN [selectedSectionId |-> selSection, selectedSlotId |-> selSlot]
             ELSE [selectedSectionId |-> NoId, selectedSlotId |-> NoId]

\* { ...s, ...updates }: the fields updates carries replace those of s
Merge(s, updates) ==
    [f \in DOMAIN s \cup DOMAIN updates |->
        IF f \in DOMAIN updates THEN updates[f] ELSE s[f]]

\* type.charAt(0).toUpperCase() + type.slice(1), on the section types of the
\* repository
Capitalize(type) ==
    CASE type = "intro" -> "Intro"
      [] type = "verse" -> "Verse"
      [] type = "pre-chorus" -> "Pre-chorus"
      [] type = "chorus" -> "Chorus"
      [] type = "bridge" -> "Bridge"
      [] type = "outro" -> "Outro"
      [] type = "custom" -> "Custom"

WithSections(song, sections) == [song EXCEPT !.sections = sections]

----
\* addSection's result
addSectionResult(song, type, id0) ==
    LET sig == IF song.timeSignature # <<>> THEN song.timeSignature
               ELSE DEFAULT_TIME_SIGNATURE
        newSection == [id |-> id0, name |-> <<Capitalize(type)>>, type |-> type,
                       timeSignature |-> sig,
                       measures |-> FourEmptyMeasures(sig, id0 + 1)]
    IN  WithSections(song, Append(song.sections, newSection))

\* updateSection's result
updateSectionResult(song, id, updates) ==
    WithSections(song,
        MapSeq(song.sections, LAMBDA s : IF s.id = id THEN Merge(s, updates) ELSE s))

\* removeSection's result
removeSectionResult(song, id) ==
    WithSections(song, SelectSeq(song.sections, LAMBDA s : s.id # id))

\* section.timeSignature || state.currentSong.timeSignature || DEFAULT_TIME_SIGNATURE
\* (an absent signature is the empty tuple)
SignatureOf(section, song) ==
    IF section.timeSignature # <<>> THEN section.timeSignature
    ELSE IF song.timeSignature # <<>> THEN song.timeSignature
    ELSE DEFAULT_TIME_SIGNATURE

\* number of ids a copy of the section needs: itself, its measures, its beats
IdsForCopy(section) == 1 + Len(section.measures) + Len(SectionBeats(section))

\* the copy duplicateSection makes: same content, fresh ids throughout
CopyOfSection(section, song, id0) ==
    LET measureBase(j) ==
            id0 + 1 + SumSeq([q \in 1..(j - 1) |-> 1 + Len(section.measures[q].beats)])
    IN  [section EXCEPT
            !.id = id0,
            !.name = Append(section.name, "(Copy)"),
            !.timeSignature = SignatureOf(section, song),
            !.measures =
                [j \in 1..Len(section.measures) |->
                    [id |-> measureBase(j),
                     beats |-> [k \in 1..Len(section.measures[j].beats) |->
                                   [section.measures[j].beats[k] EXCEPT
                                       !.id = measureBase(j) + k]]]]]

\* findIndex: the first index whose section has the id, 0 when none
FindSectionIndex(sections, id) ==
    IF \E i \in 1..Len(sections) : sections[i].id = id
    THEN CHOOSE i \in 1..Len(sections) :
             /\ sections[i].id = id
             /\ \A j \in 1..(i - 1) : sections[j].id # id
    ELSE 0

\* duplicateSection's result (the song unchanged when the id is unknown)
duplicateSectionResult(song, id, id0) ==
    LET index == FindSectionIndex(song.sections, id)
    IN  IF index = 0 THEN song
        ELSE WithSections(song,
                 SubSeq(song.sections, 1, index)
                 \o <<CopyOfSection(song.sections[index], song, id0)>>
                 \o SubSeq(song.sections, index + 1, Len(song.sections)))

\* Math.max(1, Math.min(hi, Math.round(n))) for an integer n
Clamp(n, hi) == Max(1, Min(hi, n))

\* the uuidv4 calls setSectionMeasures makes for one section: two for each
\* measure it pushes
setSectionMeasuresIds(section, id, count) ==
    IF section.id # id THEN 0
    ELSE 2 * Max(0, Clamp(count, 32) - Len(section.measures))

\* setSectionMeasures' new section list; every section with the id is
\* resized, each with ids of its own
setSectionMeasuresSections(song, id, count, id0) ==
    LET targetCount == Clamp(count, 32)
        base(i) == id0 + SumSeq([q \in 1..(i - 1) |->
                                    setSectionMeasuresIds(song.sections[q], id, count)])
        resize(i) ==
            LET section == song.sections[i]
                n == Len(section.measures)
            IN  IF section.id # id THEN section
                ELSE IF n < targetCount
                THEN [section EXCEPT !.measures =
                        section.measures \o
                        [k \in 1..(targetCount - n) |->
                            createEmptyMeasure(SignatureOf(section, song),
                                               base(i) + 2 * (k - 1))]]
                ELSE IF n > targetCount
                THEN [section EXCEPT !.measures = SubSeq(section.measures, 1, targetCount)]
                ELSE section
    IN  [i \in 1..Len(song.sections) |-> resize(i)]

\* the uuidv4 calls setSectionTimeSignature makes for one section: one for
\* each of its measures
setSectionTimeSignatureIds(section, id) ==
    IF section.id # id THEN 0 ELSE Len(section.measures)

\* setSectionTimeSignature's new section list: every measure of a section
\* with the id becomes one rest beat of the new length
setSectionTimeSignatureSections(song, id, signature, id0) ==
    LET newTotalBeats == beatsFromSignature(signature)
        base(i) == id0 + SumSeq([q \in 1..(i - 1) |->
                                    setSectionTimeSignatureIds(song.sections[q], id)])
        reset(i) ==
            LET section == song.sections[i]
            IN  IF section.id # id THEN section
                ELSE [section EXCEPT
                        !.timeSignature = signature,
                        !.measures =
                            [j \in 1..Len(section.measures) |->
                                [section.measures[j] EXCEPT
                                    !.beats = <<[id |-> base(i) + (j - 1),
                                                 chord |-> NoChord,
                                                 duration |-> newTotalBeats]>>]]]
    IN  [i \in 1..Len(song.sections) |-> reset(i)]

\* the uuidv4 calls setMeasureSubdivision makes for one measure: one for each
\* beat it adds
setMeasureSubdivisionIds(section, measure, sectionId, measureId, steps) ==
    IF section.id # sectionId \/ measure.id # measureId THEN 0
    ELSE Max(0, Clamp(steps, 16) - Len(measure.beats))

\* the uuidv4 calls setMeasureSubdivision makes for the first n measures of a
\* section
setMeasureSubdivisionIdsUpTo(section, n, sectionId, measureId, steps) ==
    SumSeq([r \in 1..n |->
               setMeasureSubdivisionIds(section, section.measures[r],
                                        sectionId, measureId, steps)])

\* setMeasureSubdivision's new section list: every measure with the id gets
\* targetSteps beats of equal length, keeping the ids and chords of the beats
\* it had
setMeasureSubdivisionSections(song, sectionId, measureId, steps, id0) ==
    LET targetSteps == Clamp(steps, 16)
        base(i, j) ==
            id0 + SumSeq([q \in 1..(i - 1) |->
                             setMeasureSubdivisionIdsUpTo(song.sections[q],
                                 Len(song.sections[q].measures),
                                 sectionId, measureId, steps)])
                + setMeasureSubdivisionIdsUpTo(song.sections[i], j - 1,
                                               sectionId, measureId, steps)
        split(i) ==
            LET section == song.sections[i]
            IN  IF section.id # sectionId THEN section
                ELSE LET totalBeats == beatsFromSignature(SignatureOf(section, song))
                         beatDuration == totalBeats \div targetSteps
                     IN  [section EXCEPT !.measures =
                            [j \in 1..Len(section.measures) |->
                                LET measure == section.measures[j]
                                IN  IF measure.id # measureId THEN measure
                                    ELSE [measure EXCEPT !.beats =
                                            [idx \in 1..targetSteps |->
                                                IF idx <= Len(measure.beats)
                                                THEN [id |-> measure.beats[idx].id,
                                                      chord |-> measure.beats[idx].chord,
                                                      duration |-> beatDuration]
                                                ELSE [id |-> base(i, j)
                                                             + (idx - Len(measure.beats) - 1),
                                                      chord |-> NoChord,
                                                      duration |-> beatDuration]]]]]
    IN  [i \in 1..Len(song.sections) |-> split(i)]

\* the beats of one section rewritten by F, the other sections untouched
MapBeatsOfSection(sections, sectionId, F(_)) ==
    MapSeq(sections, LAMBDA section :
        IF section.id # sectionId THEN section
        ELSE [section EXCEPT !.measures =
                MapSeq(section.measures, LAMBDA measure :
                    [measure EXCEPT !.beats = MapSeq(measure.beats, F)])])

\* addChordToSlot's new section list
addChordToSlotSections(song, chord, sectionId, slotId) ==
    MapBeatsOfSection(song.sections, sectionId,
        LAMBDA beat : IF beat.id # slotId THEN beat ELSE [beat EXCEPT !.chord = <<chord>>])

\* clearSlot's new section list
clearSlotSections(song, sectionId, slotId) ==
    MapBeatsOfSection(song.sections, sectionId,
        LAMBDA beat : IF beat.id # slotId THEN beat ELSE [beat EXCEPT !.chord = NoChord])

\* moveChord's first pass: the chord of the last beat with the id, or null
ChordOfSlot(sections, slotId) ==
    LET hits == SelectSeq(SongBeats(sections), LAMBDA b : b.id = slotId)
    IN  IF hits = <<>> THEN NoChord ELSE hits[Len(hits)].chord

\* a moveChord that drops the source's chord on the target and empties the
\* source
moveChordResultOverwriting(song, fromSlotId, toSlotId) ==
    LET sourceChord == ChordOfSlot(song.sections, fromSlotId)
        targetChord == ChordOfSlot(song.sections, toSlotId)
        move(beat) ==
            IF beat.id = toSlotId THEN [beat EXCEPT !.chord = sourceChord]
            ELSE IF beat.id = fromSlotId THEN [beat EXCEPT !.chord = NoChord]
            ELSE beat
    IN  IF sourceChord = NoChord /\ targetChord = NoChord THEN song
        ELSE WithSections(song,
                MapSeq(song.sections, LAMBDA section :
                    [section EXCEPT !.measures =
                        MapSeq(section.measures, LAMBDA measure :
                            [measure EXCEPT !.beats = MapSeq(measure.beats, move)])]))

\* moveChord's result (the song unchanged when both slots are empty)
moveChordResult(song, fromSlotId, toSlotId) ==
    LET sourceChord == ChordOfSlot(song.sections, fromSlotId)
        targetChord == ChordOfSlot(song.sections, toSlotId)
        swap(beat) ==
            IF beat.id = fromSlotId THEN [beat EXCEPT !.chord = targetChord]
            ELSE IF beat.id = toSlotId THEN [beat EXCEPT !.chord = sourceChord]
            ELSE beat
    IN  IF sourceChord = NoChord /\ targetChord = NoChord THEN song
        ELSE WithSections(song,
                MapSeq(song.sections, LAMBDA section :
                    [section EXCEPT !.measures =
                        MapSeq(section.measures, LAMBDA measure :
                            [measure EXCEPT !.beats = MapSeq(measure.beats, swap)])]))

-----------------------------------------------------------------------------
(* Inputs of the store operations *)

\* the section options popup offers these signatures (SectionOptionsPopup.tsx)
TIME_SIGNATURE_OPTIONS == {<<4, 4>>, <<3, 4>>, <<5, 4>>, <<2, 4>>, <<6, 8>>}

\* bar counts asked of setSectionMeasures: below the floor, shrinking, growing
CountInputs == {0, 2, 5}

SectionTypeInputs == {"bridge", "pre-chorus"}

ChordC == [root |-> "C", quality |-> "major", symbol |-> "C",
           notes |-> <<[name |-> "C", oct |-> 4], [name |-> "E", oct |-> 4],
                       [name |-> "G", oct |-> 4]>>]
\* a chord object whose note list is empty
ChordNoNotes == [root |-> "C", quality |-> "unknown", symbol |-> "C?", notes |-> <<>>]
\* a chord whose notes are spelled with the music sharp sign
ChordFSharp == [root |-> "F(U+266F)", quality |-> "major", symbol |-> "F(U+266F)",
                notes |-> <<[name |-> "F(U+266F)", oct |-> 4],
                            [name |-> "A(U+266F)", oct |-> 4],
                            [name |-> "C(U+266F)", oct |-> 5]>>]
ChordInputs == {ChordC, ChordNoNotes, ChordFSharp}

\* Partial<Section> values handed to updateSection
UpdateInputs ==
    {[timeSignature |-> sig] : sig \in TIME_SIGNATURE_OPTIONS}
    \cup {[name |-> <<"Renamed">>]}

SectionIdsOf(song) == {song.sections[i].id : i \in 1..Len(song.sections)}
\* section ids an operation is called with: the existing ones and an unknown one
SectionArgs == SectionIdsOf(currentSong) \cup {NoId}

SectionById(song, id) == song.sections[FindSectionIndex(song.sections, id)]

\* measures and slots an operation is called with: those of the section's
\* first MaxTargetMeasure measures
TargetMeasures(section) ==
    {section.measures[j] : j \in 1..Min(MaxTargetMeasure, Len(section.measures))}
MeasureArgs(sectionId) ==
    IF sectionId \in SectionIdsOf(currentSong)
    THEN {m.id : m \in TargetMeasures(SectionById(currentSong, sectionId))}
    ELSE {}
SlotArgs(sectionId) ==
    IF sectionId \in SectionIdsOf(currentSong)
    THEN UNION {{m.beats[k].id : k \in 1..Len(m.beats)} :
                    m \in TargetMeasures(SectionById(currentSong, sectionId))}
    ELSE {}
AllSlotArgs == UNION {SlotArgs(sid) : sid \in SectionIdsOf(currentSong)}

-----------------------------------------------------------------------------
(* Store actions: one per operation of useSongStore *)

\* set() of an editing operation: the song replaced, the selection kept
StoreStep(song, used) ==
    /\ currentSong' = song
    /\ nextId' = nextId + used
    /\ opCount' = opCount + 1
    /\ UNCHANGED <<selectedSectionId, selectedSlotId, keyVars>>

\* set() of an operation that re-validates the selection
StoreStepSel(sections, used) ==
    LET selection == ensureSelectionStillExists(sections, selectedSectionId, selectedSlotId)
    IN  /\ currentSong' = WithSections(currentSong, sections)
        /\ selectedSectionId' = selection.selectedSectionId
        /\ selectedSlotId' = selection.selectedSlotId
        /\ nextId' = nextId + used
        /\ opCount' = opCount + 1
        /\ UNCHANGED keyVars

addSection ==
    /\ opCount < MaxOps
    /\ Len(currentSong.sections) < MaxSections
    /\ \E type \in SectionTypeInputs :
           StoreStep(addSectionResult(currentSong, type, nextId), 9)
    /\ UNCHANGED <<audioVars, voiceVars, exportVars, probeVars, authVars>>

updateSection ==
    /\ opCount < MaxOps
    /\ \E id \in SectionArgs, updates \in UpdateInputs :
           StoreStep(updateSectionResult(currentSong, id, updates), 0)
    /\ UNCHANGED <<audioVars, voiceVars, exportVars, probeVars, authVars>>

removeSection ==
    /\ opCount < MaxOps
    /\ \E id \in SectionArgs :
           StoreStep(removeSectionResult(currentSong, id), 0)
    /\ UNCHANGED <<audioVars, voiceVars, exportVars, probeVars, authVars>>

duplicateSection ==
    /\ opCount < MaxOps
    /\ Len(currentSong.sections) < MaxSections
    /\ \E id \in SectionArgs :
           StoreStep(duplicateSectionResult(currentSong, id, nextId),
                     IF id \in SectionIdsOf(currentSong)
                     THEN IdsForCopy(SectionById(currentSong, id)) ELSE 0)
    /\ UNCHANGED <<audioVars, voiceVars, exportVars, probeVars, authVars>>

setSectionMeasures ==
    /\ opCount < MaxOps
    /\ \E id \in SectionArgs, count \in CountInputs :
           StoreStepSel(setSectionMeasuresSections(currentSong, id, count, nextId),
                        SumSeq([i \in 1..Len(currentSong.sections) |->
                                   setSectionMeasuresIds(currentSong.sections[i],
                                                         id, count)]))
    /\ UNCHANGED <<audioVars, voiceVars, exportVars, probeVars, authVars>>

setSectionTimeSignature ==
    /\ opCount < MaxOps
    /\ \E id \in SectionArgs, signature \in TIME_SIGNATURE_OPTIONS :
           StoreStepSel(setSectionTimeSignatureSections(currentSong, id, signature, nextId),
                        SumSeq([i \in 1..Len(currentSong.sections) |->
                                   setSectionTimeSignatureIds(currentSong.sections[i],
                                                              id)]))
    /\ UNCHANGED <<audioVars, voiceVars, exportVars, probeVars, authVars>>

setMeasureSubdivision ==
    /\ opCount < MaxOps
    /\ \E sectionId \in SectionIdsOf(currentSong) :
       \E measureId \in MeasureArgs(sectionId), steps \in 0..MaxSteps :
           StoreStepSel(
               setMeasureSubdivisionSections(currentSong, sectionId, measureId, steps, nextId),
               SumSeq([i \in 1..Len(currentSong.sections) |->
                          setMeasureSubdivisionIdsUpTo(currentSong.sections[i],
                              Len(currentSong.sections[i].measures),
                              sectionId, measureId, steps)]))
    /\ UNCHANGED <<audioVars, voiceVars, exportVars, probeVars, authVars>>

addChordToSlot ==
    /\ opCount < MaxOps
    /\ \E sectionId \in SectionIdsOf(currentSong), chord \in ChordInputs :
       \E slotId \in SlotArgs(sectionId) :
           StoreStep(WithSections(currentSong,
                        addChordToSlotSections(currentSong, chord, sectionId, slotId)), 0)
    /\ UNCHANGED <<audioVars, voiceVars, exportVars, probeVars, authVars>>

clearSlot ==
    /\ opCount < MaxOps
    /\ \E sectionId \in SectionIdsOf(currentSong) :
       \E slotId \in SlotArgs(sectionId) :
           StoreStep(WithSections(currentSong,
                        clearSlotSections(currentSong, sectionId, slotId)), 0)
    /\ UNCHANGED <<audioVars, voiceVars, exportVars, probeVars, authVars>>

moveChord ==
    /\ opCount < MaxOps
    /\ \E fromSlotId \in AllSlotArgs, toSlotId \in AllSlotArgs :
           StoreStep(moveChordResult(currentSong, fromSlotId, toSlotId), 0)
    /\ UNCHANGED <<audioVars, voiceVars, exportVars, probeVars, authVars>>

\* setSelectedSlot(sectionId, slotId): a slot of the timeline is picked
setSelectedSlot ==
    /\ opCount < MaxOps
    /\ \E sectionId \in SectionIdsOf(currentSong) :
       \E slotId \in SlotArgs(sectionId) :
           /\ selectedSectionId' = sectionId
           /\ selectedSlotId' = slotId
    /\ opCount' = opCount + 1
    /\ UNCHANGED <<currentSong, nextId, keyVars>>
    /\ UNCHANGED <<audioVars, voiceVars, exportVars, probeVars, authVars>>

\* the slots of the song in song order, each with its section's id
SlotsInOrder(sections) ==
    Flatten(MapSeq(sections, LAMBDA section :
        MapSeq(SectionBeats(section), LAMBDA beat :
            [sectionId |-> section.id, slotId |-> beat.id])))

\* findNextSlot: the slot after the first one that has the two ids, or null
findNextSlot(sections, sectionId, slotId) ==
    LET slots == SlotsInOrder(sections)
        at == {i \in 1..Len(slots) :
                  slots[i] = [sectionId |-> sectionId, slotId |-> slotId]}
    IN  IF at = {} THEN <<>>
        ELSE LET first == CHOOSE i \in at : \A j \in at : i <= j
             IN  IF first < Len(slots) THEN <<slots[first + 1]>> ELSE <<>>

\* selectNextSlotAfter(sectionId, slotId): the selection moves to the next
\* slot of the song, or stays when there is none
selectNextSlotAfter ==
    /\ opCount < MaxOps
    /\ \E sectionId \in SectionIdsOf(currentSong) :
       \E slotId \in SlotArgs(sectionId) :
           LET next == findNextSlot(currentSong.sections, sectionId, slotId)
           IN  IF next = <<>>
               THEN UNCHANGED <<selectedSectionId, selectedSlotId>>
               ELSE /\ selectedSectionId' = next[1].sectionId
                    /\ selectedSlotId' = next[1].slotId
    /\ opCount' = opCount + 1
    /\ UNCHANGED <<currentSong, nextId, keyVars>>
    /\ UNCHANGED <<audioVars, voiceVars, exportVars, probeVars, authVars>>

\* the orders a drag of a section can hand to reorderSections
SectionOrders(sections) ==
    {[i \in 1..Len(sections) |-> sections[perm[i]]] :
        perm \in {f \in [1..Len(sections) -> 1..Len(sections)] :
                     \A i, j \in 1..Len(sections) : f[i] = f[j] => i = j}}

\* reorderSections(sections): the section list replaced, the selection kept
reorderSections ==
    /\ opCount < MaxOps
    /\ \E sections \in SectionOrders(currentSong.sections) :
           /\ sections # currentSong.sections
           /\ StoreStep(WithSections(currentSong, sections), 0)
    /\ UNCHANGED <<audioVars, voiceVars, exportVars, probeVars, authVars>>

-----------------------------------------------------------------------------
(* Voicing: the note mapping of playChord (audioEngine.ts) *)

\* oct of a note string that carries no digit
NoOct == -1

NOTES == <<"C", "C#", "D", "D#", "E", "F", "F#", "G", "G#", "A", "A#", "B">>

\* NOTES.indexOf(name): zero-based, -1 when the name is not in NOTES
IndexOfNote(name) ==
    IF \E k \in 1..Len(NOTES) : NOTES[k] = name
    THEN (CHOOSE k \in 1..Len(NOTES) : NOTES[k] = name) - 1
    ELSE -1

\* OctaveFor with both index thresholds one too high
OctaveForLate(noteIndex, rootIndex, i) ==
    LET byPitch == IF noteIndex < rootIndex \/ (noteIndex - rootIndex > 6) THEN 4 ELSE 3
        byFour == IF i >= 5 THEN 4 ELSE byPitch
    IN  IF i >= 6 THEN 5 ELSE byFour

\* the octave the i-th (zero-based, i > 0) octave-less note is given
OctaveFor(noteIndex, rootIndex, i) ==
    LET byPitch == IF noteIndex < rootIndex \/ (noteIndex - rootIndex > 6) THEN 4 ELSE 3
        byFour == IF i >= 4 THEN 4 ELSE byPitch
    IN  IF i >= 5 THEN 5 ELSE byFour

\* VoiceNote without the early return for a note that carries an octave
VoiceNoteRevoiced(note, i, rootIndex) ==
    IF i = 0 THEN [name |-> note.name, oct |-> 3]
    ELSE [name |-> note.name, oct |-> OctaveFor(IndexOfNote(note.name), rootIndex, i)]

\* the callback of notes.map: note at zero-based index i
VoiceNote(note, i, rootIndex) ==
    IF note.oct # NoOct THEN note
    ELSE IF i = 0 THEN [name |-> note.name, oct |-> 3]
    ELSE [name |-> note.name, oct |-> OctaveFor(IndexOfNote(note.name), rootIndex, i)]

\* voicedNotes of playChord, for a non-empty note list
VoicedNotes(notes) ==
    LET rootIndex == IndexOfNote(notes[1].name)
    IN  [k \in 1..Len(notes) |-> VoiceNote(notes[k], k - 1, rootIndex)]

-----------------------------------------------------------------------------
(* Audio engine: audioEngine.ts *)

InstrumentNames == {"piano", "guitar", "organ", "synth"}

\* playChord invocations in flight at once
MaxCalls == 2
\* stopAudio calls in one behaviour
MaxStops == 3

CallIds == 1..MaxCalls

N(name) == [name |-> name, oct |-> NoOct]
\* note lists handed to playChord: an empty one and a triad
PlayInputs == {<<>>, <<N("C"), N("E"), N("G")>>}

\* names every object inherits from Object.prototype
ObjectPrototypeNames ==
    {"constructor", "toString", "valueOf", "hasOwnProperty", "isPrototypeOf",
     "propertyIsEnumerable", "toLocaleString", "__proto__",
     "__defineGetter__", "__defineSetter__", "__lookupGetter__",
     "__lookupSetter__"}

\* names handed to setInstrument: one the engine has, one it has not, and
\* one that is a property of the registry without being an instrument
SetInstrumentInputs == {"guitar", "strings", "toString"}

IdleCall == [pc |-> "idle", notes |-> <<>>, outcome |-> "none"]

\* the engine's own state (what stopAudio could touch), without the histories
engineState == <<instruments, currentInstrument, ctxState, loadState, calls,
                 sounding, transport>>

\* an engine operation other than stopAudio ran: the state is no longer as
\* the last stopAudio left it
EngineRan == stops' = [stops EXCEPT !.fresh = FALSE]

\* setInstrument: `name in instruments` holds of inherited names too
setInstrumentResult(name, current) ==
    IF name \in InstrumentNames \cup ObjectPrototypeNames THEN name ELSE current

\* instruments[name]: the entry, or what the registry inherits under the name
\* (a function or object without triggerAttackRelease)
RegistryEntry(instr, name) ==
    IF name \in InstrumentNames THEN instr[name] ELSE "inherited"

\* the order initAudio constructs and assigns the instruments in
ConstructionOrder == <<"piano", "guitar", "organ", "synth">>

OrderOf(name) == CHOOSE k \in 1..Len(ConstructionOrder) : ConstructionOrder[k] = name

\* how the constructions of one initAudio run end: all four return, or the
\* constructor of one instrument throws (nothing catches it)
ConstructorOutcomes == {"none"} \cup InstrumentNames

\* initAudio up to its await: nothing when the piano exists; else the
\* instruments are constructed and assigned in order, the sampler's samples
\* start loading, and a constructor that throws ends the run with the
\* entries before it assigned and the others as they were
initAudioSync(instr, load, built, thrower) ==
    IF instr["piano"] # "null"
    THEN [instruments |-> instr, loadState |-> load, constructed |-> built,
          awaits |-> FALSE, threw |-> FALSE]
    ELSE LET made == {n \in InstrumentNames :
                         thrower = "none" \/ OrderOf(n) < OrderOf(thrower)}
         IN  [instruments |-> [n \in InstrumentNames |->
                                  IF n \in made THEN "obj" ELSE instr[n]],
              loadState |-> IF "piano" \in made THEN "pending" ELSE load,
              constructed |-> [n \in InstrumentNames |->
                                  IF n \in made THEN built[n] + 1 ELSE built[n]],
              awaits |-> thrower = "none",
              threw |-> thrower # "none"]

\* one triggerAttackRelease, as the log keeps it
TriggerEntry(source, inst, notes) ==
    [source |-> source, inst |-> inst, notes |-> notes,
     loadState |-> loadState, stops |-> stops.count]

\* playChord from line 135 on (no await left): voice the notes and trigger
\* the current instrument
PlayChordFinish(c, notes, instr, load, ctx) ==
    LET inst == RegistryEntry(instr, currentInstrument)
        triggers == notes # <<>> /\ inst = "obj"
        throws == notes # <<>> /\ inst = "inherited"
    IN  /\ instruments' = instr
        /\ UNCHANGED constructed
        /\ loadState' = load
        /\ ctxState' = ctx
        /\ calls' = [calls EXCEPT ![c] =
                        [pc |-> "done", notes |-> notes,
                         outcome |-> IF triggers THEN "triggered"
                                     ELSE IF throws THEN "threw" ELSE "silent"]]
        /\ triggerLog' = IF triggers
                         THEN Append(triggerLog,
                                  TriggerEntry("playChord", currentInstrument,
                                               VoicedNotes(notes)))
                         ELSE triggerLog
        /\ sounding' = IF triggers
                       THEN [sounding EXCEPT ![currentInstrument] = @ + Len(notes)]
                       ELSE sounding

\* playChord from line 131 on: await initAudio() when there is no piano; the
\* call is suspended at the await also when initAudio threw and its promise
\* is rejected already
PlayChordAfterStart(c, notes, ctx) ==
    IF instruments["piano"] = "null"
    THEN \E thrower \in ConstructorOutcomes :
         LET init == initAudioSync(instruments, loadState, constructed, thrower)
         IN  /\ instruments' = init.instruments
             /\ constructed' = init.constructed
             /\ loadState' = init.loadState
             /\ ctxState' = ctx
             /\ calls' = [calls EXCEPT ![c] =
                             [pc |-> IF init.threw THEN "awaitInitThrew"
                                     ELSE "awaitInit",
                              notes |-> notes, outcome |-> "none"]]
             /\ UNCHANGED <<triggerLog, sounding>>
    ELSE PlayChordFinish(c, notes, instruments, loadState, ctx)

\* a caller invokes playChord(notes): runs to its first await, or to the end
playChord(c) ==
    /\ calls[c].pc = "idle"
    /\ \E notes \in PlayInputs :
          IF ctxState # "running"
          THEN /\ calls' = [calls EXCEPT ![c] =
                               [pc |-> "awaitStart", notes |-> notes, outcome |-> "none"]]
               /\ UNCHANGED <<instruments, constructed, loadState, ctxState, triggerLog, sounding>>
          ELSE PlayChordAfterStart(c, notes, ctxState)
    /\ EngineRan
    /\ UNCHANGED <<currentInstrument, transport>>
    /\ UNCHANGED <<storeVars, voiceVars, exportVars, probeVars, authVars>>

\* Tone.start() resolves: the context runs and the call goes on
playChordStarted(c) ==
    /\ calls[c].pc = "awaitStart"
    /\ PlayChordAfterStart(c, calls[c].notes, "running")
    /\ EngineRan
    /\ UNCHANGED <<currentInstrument, transport>>
    /\ UNCHANGED <<storeVars, voiceVars, exportVars, probeVars, authVars>>

\* Tone.loaded() settles: every sample has loaded, or one failed to
samplesLoaded ==
    /\ loadState = "pending"
    /\ loadState' = "loaded"
    /\ EngineRan
    /\ UNCHANGED <<instruments, constructed, currentInstrument, ctxState, calls, sounding,
                   triggerLog, transport>>
    /\ UNCHANGED <<storeVars, voiceVars, exportVars, probeVars, authVars>>

samplesFailed ==
    /\ loadState = "pending"
    /\ loadState' = "failed"
    /\ EngineRan
    /\ UNCHANGED <<instruments, constructed, currentInstrument, ctxState, calls, sounding,
                   triggerLog, transport>>
    /\ UNCHANGED <<storeVars, voiceVars, exportVars, probeVars, authVars>>

\* the call's await initAudio() returns: it goes on, or the rejection of
\* Tone.loaded() ends it
playChordInitDone(c) ==
    /\ calls[c].pc = "awaitInit"
    /\ loadState \in {"loaded", "failed"}
    /\ IF loadState = "loaded"
       THEN PlayChordFinish(c, calls[c].notes, instruments, loadState, ctxState)
       ELSE /\ calls' = [calls EXCEPT ![c] =
                            [pc |-> "done", notes |-> calls[c].notes,
                             outcome |-> "rejected"]]
            /\ UNCHANGED <<instruments, constructed, loadState, ctxState, triggerLog, sounding>>
    /\ EngineRan
    /\ UNCHANGED <<currentInstrument, transport>>
    /\ UNCHANGED <<storeVars, voiceVars, exportVars, probeVars, authVars>>

\* the rejection of an initAudio that threw reaches the call suspended at
\* await initAudio() and ends it
playChordInitThrew(c) ==
    /\ calls[c].pc = "awaitInitThrew"
    /\ calls' = [calls EXCEPT ![c] =
                    [pc |-> "done", notes |-> calls[c].notes, outcome |-> "rejected"]]
    /\ EngineRan
    /\ UNCHANGED <<instruments, constructed, loadState, ctxState, triggerLog, sounding,
                   currentInstrument, transport>>
    /\ UNCHANGED <<storeVars, voiceVars, exportVars, probeVars, authVars>>

\* constructions of one instrument a behaviour is followed for
MaxBuilds == 2

\* initAudio called on its own (PlaybackControls), up to its await
initAudio ==
    /\ \A n \in InstrumentNames : constructed[n] < MaxBuilds
    /\ \E thrower \in ConstructorOutcomes :
       LET init == initAudioSync(instruments, loadState, constructed, thrower)
       IN  /\ instruments' = init.instruments
           /\ constructed' = init.constructed
           /\ loadState' = init.loadState
    /\ EngineRan
    /\ UNCHANGED <<currentInstrument, ctxState, calls, sounding, triggerLog,
                   transport>>
    /\ UNCHANGED <<storeVars, voiceVars, exportVars, probeVars, authVars>>

setInstrument ==
    /\ \E name \in SetInstrumentInputs :
           currentInstrument' = setInstrumentResult(name, currentInstrument)
    /\ EngineRan
    /\ UNCHANGED <<instruments, constructed, ctxState, loadState, calls, sounding, triggerLog,
                   transport>>
    /\ UNCHANGED <<storeVars, voiceVars, exportVars, probeVars, authVars>>

\* ReleaseAllOf without the optional chaining: releaseAll of null throws
ReleaseAllOfUnguarded(entry, voices) ==
    IF entry = "null" THEN [voices |-> voices, threw |-> TRUE]
    ELSE [voices |-> 0, threw |-> FALSE]

\* inst?.releaseAll() on one registry entry: a null entry is skipped
ReleaseAllOf(entry, voices) ==
    IF entry = "null" THEN [voices |-> voices, threw |-> FALSE]
    ELSE [voices |-> 0, threw |-> FALSE]

\* stopAudio: releaseAll on every instrument of the registry
stopAudioResult(instr, snd) ==
    [sounding |-> [n \in InstrumentNames |-> ReleaseAllOf(instr[n], snd[n]).voices],
     threw |-> \E n \in InstrumentNames : ReleaseAllOf(instr[n], snd[n]).threw]

TotalSounding(snd) ==
    snd["piano"] + snd["guitar"] + snd["organ"] + snd["synth"]

\* which of the engine states a stopAudio call can meet hold of this one
StopKinds(instr, load, snd, fresh) ==
    {k \in {"beforeInit", "loading", "sounding", "afterStop"} :
        \/ k = "beforeInit" /\ instr["piano"] = "null"
        \/ k = "loading" /\ load = "pending"
        \/ k = "sounding" /\ TotalSounding(snd) > 0
        \/ k = "afterStop" /\ fresh}

stopAudio ==
    /\ stops.count < MaxStops
    /\ LET r == stopAudioResult(instruments, sounding)
       IN  /\ sounding' = r.sounding
           /\ stops' = [count |-> stops.count + 1,
                        threw |-> stops.threw \/ r.threw,
                        kinds |-> stops.kinds
                                  \cup StopKinds(instruments, loadState, sounding,
                                                 stops.fresh),
                        fresh |-> TRUE]
    /\ UNCHANGED <<instruments, constructed, currentInstrument, ctxState, loadState, calls,
                   triggerLog, transport>>
    /\ UNCHANGED <<storeVars, voiceVars, exportVars, probeVars, authVars>>

-----------------------------------------------------------------------------
(* Playback scheduler: the transport of section 4.3.  The repository's      *)
(* scheduler (scheduleSong, playSection) is not among the sources; schedule *)
(* and the clock are modelled from the specification, the trigger and stop  *)
(* are those of audioEngine.ts.                                            *)

\* events handed to one schedule call
MaxEvents == 3
\* the clock runs to MaxTime
MaxTime == 4

\* event lists handed to schedule: each event a chord or a rest (<<>>), the
\* k-th event one clock unit long and starting k units from now
ScheduleInputs ==
    UNION {[1..n -> {<<>>, <<N("C"), N("E"), N("G")>>}] : n \in 1..MaxEvents}

\* schedule: one trigger per non-rest event, at its start time
ScheduledTriggers(events, now) ==
    {[seq |-> k, at |-> now + k, notes |-> events[k]] :
        k \in {j \in 1..Len(events) : events[j] # <<>>}}

schedule ==
    /\ ~transport.scheduled
    /\ \E events \in ScheduleInputs :
           transport' = [transport EXCEPT
                            !.scheduled = TRUE,
                            !.stopsAtSchedule = stops.count,
                            !.pending = ScheduledTriggers(events, transport.now)]
    /\ EngineRan
    /\ UNCHANGED <<instruments, constructed, currentInstrument, ctxState, loadState, calls,
                   sounding, triggerLog>>
    /\ UNCHANGED <<storeVars, voiceVars, exportVars, probeVars, authVars>>

\* the due triggers in the order they were submitted
RECURSIVE InOrder(_)
InOrder(due) ==
    IF due = {} THEN <<>>
    ELSE LET first == CHOOSE e \in due : \A o \in due : e.seq <= o.seq
         IN  <<first>> \o InOrder(due \ {first})

\* the clock advances one unit and the triggers due at the new time fire:
\* each one sounds its notes on the current instrument (playChord, 172-175)
transportTick ==
    /\ transport.now < MaxTime
    /\ LET t == transport.now + 1
           due == InOrder({e \in transport.pending : e.at = t})
           inst == RegistryEntry(instruments, currentInstrument)
           fired == IF inst = "obj" THEN due ELSE <<>>
       IN  /\ transport' = [transport EXCEPT
                               !.now = t,
                               !.pending = {e \in transport.pending : e.at # t}]
           /\ triggerLog' = triggerLog \o
                  [k \in 1..Len(fired) |->
                      TriggerEntry("transport", currentInstrument,
                                   VoicedNotes(fired[k].notes))]
           /\ sounding' = IF fired = <<>> THEN sounding
                          ELSE [sounding EXCEPT ![currentInstrument] =
                                   @ + SumSeq([k \in 1..Len(fired) |-> Len(fired[k].notes)])]
    /\ EngineRan
    /\ UNCHANGED <<instruments, constructed, currentInstrument, ctxState, loadState, calls>>
    /\ UNCHANGED <<storeVars, voiceVars, exportVars, probeVars, authVars>>

-----------------------------------------------------------------------------
(* Offline export: exportSongAsAudio and its helpers (exportMidi.ts) *)

\* frames of the buffers a render hands back
MaxFrames == 2

\* the nodes createEffectsChain builds, in the order it builds them
EffectsChainNodes ==
    <<"limiter", "reverb", "delay", "chorus", "gain", "eq", "distortion",
      "vibrato", "tremolo", "phaser", "autoFilter", "pitchShift">>

\* createEffectsChain: the nodes built and the chain's input
createEffectsChain ==
    [nodes |-> EffectsChainNodes, input |-> "pitchShift"]

\* the switch of createInstrumentForExport: what is constructed for a type
InstrumentForExport(instrumentType) ==
    CASE instrumentType = "piano" -> [kind |-> "Sampler", voice |-> "piano"]
      [] instrumentType \in {"guitar", "guitar-jazzmaster"} ->
             [kind |-> "Sampler", voice |-> "guitar"]
      [] instrumentType = "organ" -> [kind |-> "PolySynth", voice |-> "AMSynth"]
      [] instrumentType = "synth" -> [kind |-> "PolySynth", voice |-> "Synth-sawtooth"]
      [] instrumentType \in {"strings", "pad", "epiano"} ->
             [kind |-> "PolySynth", voice |-> "FMSynth"]
      [] instrumentType = "brass" -> [kind |-> "PolySynth", voice |-> "MonoSynth"]
      [] OTHER -> [kind |-> "PolySynth", voice |-> "Synth-triangle"]

\* a rational number of seconds
Seconds(num, den) == [num |-> num, den |-> den]

\* calculateSongDuration counting only the beats that hold a chord
calculateSongDurationOfChords(song) ==
    LET chordBeats == SelectSeq(SongBeats(song.sections), LAMBDA b : b.chord # NoChord)
        totalUnits == SumSeq(MapSeq(chordBeats, LAMBDA b : b.duration))
    IN  Seconds(totalUnits * 60 + 2 * song.tempo * DurScale, song.tempo * DurScale)

\* calculateSongDuration: total beats * (60 / tempo) + 2
calculateSongDuration(song) ==
    LET totalUnits == SumSeq(MapSeq(SongBeats(song.sections), LAMBDA b : b.duration))
    IN  Seconds(totalUnits * 60 + 2 * song.tempo * DurScale, song.tempo * DurScale)

\* the schedule loop of exportSongAsAudio: one trigger per beat that holds a
\* chord with notes, at the time the beats before it add up to
RECURSIVE ScheduleFrom(_, _, _)
ScheduleFrom(beats, unitsBefore, songTempo) ==
    IF beats = <<>> THEN <<>>
    ELSE LET beat == Head(beats)
             sounds == beat.chord # NoChord /\ beat.chord[1].notes # <<>>
             rest == ScheduleFrom(Tail(beats), unitsBefore + beat.duration, songTempo)
         IN  IF sounds
             THEN <<[time |-> Seconds(unitsBefore * 60, songTempo * DurScale),
                     duration |-> Seconds(beat.duration * 60, songTempo * DurScale),
                     notes |-> beat.chord[1].notes]>> \o rest
             ELSE rest

ExportSchedule(song) == ScheduleFrom(SongBeats(song.sections), 0, song.tempo)

\* a sample of a Float32Array: a finite value counted in 1/SampleScale, or
\* one of the three non-finite floats
SampleScale == 2 * 2
Sample(kind, units) == [kind |-> kind, units |-> units]
Silence == Sample("finite", 0)

\* the integer part of num / den, den > 0 (a conversion to an integer type
\* drops the fraction)
Trunc(num, den) == IF num >= 0 THEN num \div den ELSE -((-num) \div den)

\* ToInt16: the store into an Int16Array keeps the low 16 bits
ToInt16(n) == ((n + 32768) % 65536) - 32768

\* the 16-bit conversion without Math.max / Math.min
floatTo16BitUnclamped(sample) ==
    CASE sample.kind = "NaN" -> 0
      [] sample.kind = "Infinity" -> 0
      [] sample.kind = "-Infinity" -> 0
      [] OTHER ->
          ToInt16(IF sample.units < 0
                  THEN Trunc(sample.units * 32768, SampleScale)
                  ELSE Trunc(sample.units * 32767, SampleScale))

\* the body of the conversion loop of audioBufferToWav:
\* s = Math.max(-1, Math.min(1, x)); samples[i] = s < 0 ? s * 0x8000 : s * 0x7FFF
floatTo16Bit(sample) ==
    CASE sample.kind = "NaN" -> 0
      [] sample.kind = "Infinity" -> ToInt16(32767)
      [] sample.kind = "-Infinity" -> ToInt16(-32768)
      [] OTHER ->
          LET s == Max(-SampleScale, Min(SampleScale, sample.units))
          IN  ToInt16(IF s < 0 THEN Trunc(s * 32768, SampleScale)
                      ELSE Trunc(s * 32767, SampleScale))

\* the interleaving loop with the channels laid one after the other
InterleavedPlanar(b) ==
    [k \in 1..(b.length * b.numberOfChannels) |->
        b.channelData[((k - 1) \div b.length) + 1][((k - 1) % b.length) + 1]]

\* the interleaving loop: interleaved[i * numChannels + channel] = channelData[i]
Interleaved(b) ==
    [k \in 1..(b.length * b.numberOfChannels) |->
        b.channelData[((k - 1) % b.numberOfChannels) + 1]
                     [((k - 1) \div b.numberOfChannels) + 1]]

\* DataView writes: a string as char codes, integers little-endian
writeString(str) ==
    CASE str = "RIFF" -> <<82, 73, 70, 70>>
      [] str = "WAVE" -> <<87, 65, 86, 69>>
      [] str = "fmt " -> <<102, 109, 116, 32>>
      [] str = "data" -> <<100, 97, 116, 97>>
setUint16(value) == <<value % 256, (value \div 256) % 256>>
setUint32(value) ==
    <<value % 256, (value \div 256) % 256, (value \div 65536) % 256,
      (value \div 16777216) % 256>>
setInt16(value) == setUint16((value + 65536) % 65536)

\* the bytes audioBufferToWav writes for an AudioBuffer
WavBytes(b) ==
    LET samples == MapSeq(Interleaved(b), floatTo16Bit)
    IN  writeString("RIFF") \o setUint32(36 + Len(samples) * 2)
        \o writeString("WAVE") \o writeString("fmt ")
        \o setUint32(16) \o setUint16(1) \o setUint16(b.numberOfChannels)
        \o setUint32(b.sampleRate)
        \o setUint32(b.sampleRate * b.numberOfChannels * 2)
        \o setUint16(b.numberOfChannels * 2) \o setUint16(16)
        \o writeString("data") \o setUint32(Len(samples) * 2)
        \o Flatten(MapSeq(samples, setInt16))

\* audioBufferToWav without the check of buffer.get(): a header-only Blob
audioBufferToWavUnchecked(buffer) ==
    LET dataLen == IF buffer = <<>> THEN 0
                   ELSE buffer[1].length * buffer[1].numberOfChannels * 2
    IN  [blob |-> <<[type |-> "audio/wav", size |-> 44 + dataLen,
                     dataLen |-> dataLen]>>,
         error |-> <<>>]

\* audioBufferToWav: the Blob for a buffer, or the error it throws without one
audioBufferToWav(buffer) ==
    IF buffer = <<>>
    THEN [blob |-> <<>>, error |-> <<"Failed to get audio buffer">>]
    ELSE LET b == buffer[1]
             dataLen == b.length * b.numberOfChannels * 2
         IN  [blob |-> <<[type |-> "audio/wav",
                          size |-> 44 + dataLen,
                          riffSize |-> 36 + dataLen,
                          format |-> 1,
                          numChannels |-> b.numberOfChannels,
                          sampleRate |-> b.sampleRate,
                          byteRate |-> b.sampleRate * b.numberOfChannels * 2,
                          blockAlign |-> b.numberOfChannels * 2,
                          bitsPerSample |-> 16,
                          dataLen |-> dataLen,
                          bytes |-> WavBytes(b)]>>,
              error |-> <<>>]

\* songs handed to the export
SongWithChords ==
    WithSections(DEFAULT_SONG,
        addChordToSlotSections(
            WithSections(DEFAULT_SONG,
                setMeasureSubdivisionSections(DEFAULT_SONG, 1, 3, 3, FirstFreeId)),
            ChordC, 1, 4))
SongOneSection == removeSectionResult(SongWithChords, 2)
\* the same song at 90 BPM, a tempo that does not divide 60
SongAt90 == [SongWithChords EXCEPT !.tempo = 90]
ExportSongInputs == {DEFAULT_SONG, SongWithChords, SongOneSection, SongAt90}

\* instrument types handed to the export: a sampler, two synths and a type
\* createInstrumentForExport has no case for
ExportInstrumentInputs == {"piano", "organ", "strings", "marimba"}

\* what a render can hand back: no buffer, or a stereo buffer of a few frames
RenderOutcomes(sampleRate) ==
    {<<>>} \cup {<<[numberOfChannels |-> 2, sampleRate |-> sampleRate, length |-> len,
                     channelData |-> [c \in 1..2 |-> [i \in 1..len |-> Silence]]]>> :
                    len \in 1..MaxFrames}

IdleExport ==
    [pc |-> "idle", song |-> DEFAULT_SONG, instrumentType |-> "piano", wet |-> FALSE,
     duration |-> Seconds(0, 1), sampleRate |-> 44100,
     chain |-> <<>>, disposed |-> {}, instrument |-> <<>>, samples |-> "none",
     schedule |-> <<>>, started |-> FALSE, rendered |-> FALSE, buffer |-> <<>>,
     blob |-> <<>>, error |-> <<>>, failedAt |-> "none", threw |-> "none"]

\* how the synchronous part of createInstrumentForExport can end: at its
\* await or return, or in a throw of the constructor or of connect()
InstrumentOutcomes == {"none", "constructor", "connect"}

\* exportSongAsAudio up to its first await: the duration, then inside the
\* render callback the effects chain (wet only) and the call of
\* createInstrumentForExport, which constructs and connects the instrument
\* or throws on the way (its promise is then rejected, see below)
exportSongAsAudio ==
    /\ exp.pc = "idle"
    /\ \E song \in ExportSongInputs, instrumentType \in ExportInstrumentInputs,
          wet \in BOOLEAN, threw \in InstrumentOutcomes :
           LET instrument == InstrumentForExport(instrumentType)
               isBuilt == threw # "constructor"
           IN  exp' = [exp EXCEPT
                          !.pc = "awaitInstrument",
                          !.song = song,
                          !.instrumentType = instrumentType,
                          !.wet = wet,
                          !.duration = calculateSongDuration(song),
                          !.chain = IF wet THEN createEffectsChain.nodes ELSE <<>>,
                          !.instrument = IF isBuilt THEN <<instrument>> ELSE <<>>,
                          !.samples = IF isBuilt /\ instrument.kind = "Sampler"
                                      THEN "loading" ELSE "none",
                          !.threw = threw]
    /\ UNCHANGED <<storeVars, audioVars, voiceVars, probeVars, authVars, midi>>

\* the constructor or connect() has thrown: the rejection of
\* createInstrumentForExport is delivered, nothing catches it, and it is the
\* export's result; what was constructed stays as it is
exportInstrumentThrows ==
    /\ exp.pc = "awaitInstrument"
    /\ exp.threw # "none"
    /\ exp' = [exp EXCEPT
                  !.pc = "failed",
                  !.error = <<"instrument">>,
                  !.failedAt = "instrument"]
    /\ UNCHANGED <<storeVars, audioVars, voiceVars, probeVars, authVars, midi>>

\* a sample fails to load: onload never runs and the promise stays pending
exportSamplesFail ==
    /\ exp.pc = "awaitInstrument"
    /\ exp.threw = "none"
    /\ exp.samples = "loading"
    /\ exp' = [exp EXCEPT !.samples = "failed"]
    /\ UNCHANGED <<storeVars, audioVars, voiceVars, probeVars, authVars, midi>>

\* createInstrumentForExport resolves (a synth at once, a sampler on load):
\* the callback schedules every chord and starts the transport
exportInstrumentReady ==
    /\ exp.pc = "awaitInstrument"
    /\ exp.threw = "none"
    /\ exp.samples \in {"none", "loading"}
    /\ exp' = [exp EXCEPT
                  !.pc = "rendering",
                  !.samples = IF exp.samples = "loading" THEN "loaded" ELSE "none",
                  !.schedule = ExportSchedule(exp.song),
                  !.started = TRUE]
    /\ UNCHANGED <<storeVars, audioVars, voiceVars, probeVars, authVars, midi>>

\* Tone.Offline resolves and audioBufferToWav turns its buffer into the Blob
\* the export returns, or throws
exportRendered ==
    /\ exp.pc = "rendering"
    /\ \E buffer \in RenderOutcomes(exp.sampleRate) :
           LET wav == audioBufferToWav(buffer)
           IN  exp' = [exp EXCEPT
                          !.rendered = TRUE,
                          !.buffer = buffer,
                          !.blob = wav.blob,
                          !.error = wav.error,
                          !.pc = IF wav.error = <<>> THEN "done" ELSE "failed",
                          !.failedAt = IF wav.error = <<>> THEN "none" ELSE "encode"]
    /\ UNCHANGED <<storeVars, audioVars, voiceVars, probeVars, authVars, midi>>

-----------------------------------------------------------------------------
(* The voicing applied to drawn inputs *)

\* longest note list voiced
MaxVoiceLen == 6

\* the seventeen spellings of the twelve pitch classes
NoteNameInputs ==
    {"C", "C#", "Db", "D", "D#", "Eb", "E", "F", "F#", "Gb", "G", "G#", "Ab",
     "A", "A#", "Bb", "B"}

\* octave marks of the drawn notes: none, or an explicit octave
OctaveInputs == {NoOct, 2, 5}

\* note lists of every length up to MaxVoiceLen: a root, one probe note at
\* each later position, the other positions filled with the root's name, so
\* that every (root, note, position) combination is voiced
VoiceInputs ==
    {[k \in 1..len |->
        IF k = 1 THEN [name |-> root, oct |-> rootOct]
        ELSE IF k = pos THEN [name |-> probe, oct |-> probeOct]
        ELSE [name |-> root, oct |-> NoOct]] :
     <<len, pos, root, rootOct, probe, probeOct>> \in
        {t \in (1..MaxVoiceLen) \X (1..MaxVoiceLen) \X NoteNameInputs \X {NoOct, 4}
                \X NoteNameInputs \X OctaveInputs :
            /\ t[2] <= t[1]
            /\ (t[2] = 1 => (t[5] = t[3] /\ t[6] = t[4]))}}

voiceChord ==
    /\ voiceOut = <<>>
    /\ voiceOut' = VoicedNotes(voiceIn)
    /\ UNCHANGED <<voiceIn, storeVars, audioVars, exportVars, probeVars, authVars>>

-----------------------------------------------------------------------------
(* The store's key, wheel and tempo operations (useSongStore.ts) *)

\* the twelve major keys in circle-of-fifths order
CIRCLE_OF_FIFTHS ==
    <<"C", "G", "D", "A", "E", "B", "F#", "Db", "Ab", "Eb", "Bb", "F">>

\* CIRCLE_OF_FIFTHS.indexOf(key): zero-based, -1 for a key not in the list
CircleIndexOf(key) ==
    IF \E k \in 1..12 : CIRCLE_OF_FIFTHS[k] = key
    THEN (CHOOSE k \in 1..12 : CIRCLE_OF_FIFTHS[k] = key) - 1
    ELSE -1

\* the rotation that puts a key at the top; 0 for a key not in the list
RotationForKey(key) ==
    IF CircleIndexOf(key) # -1 THEN -(CircleIndexOf(key) * 30) ELSE 0

\* Number(e.target.value) of the tempo field: a cleared field gives 0, and the
\* field has no min
TempoInputs == {0, -5, 90}

\* songs handed to loadSong: key and tempo present or missing (key "" and
\* tempo <<>>), a key outside CIRCLE_OF_FIFTHS, and a song saved without a
\* time signature (the empty tuple)
LoadSongInputs ==
    {[DEFAULT_SONG EXCEPT !.key = k, !.tempo = tp] :
        k \in {"", "G", "Bb", "Gb"}, tp \in {<<>>, <<90>>}}
    \cup {[DEFAULT_SONG EXCEPT !.tempo = <<120>>, !.timeSignature = <<>>]}

\* the song newSong builds, ids from id0 on
newSongResult(id0) ==
    [DEFAULT_SONG EXCEPT
        !.title = "Untitled Song",
        !.tempo = DEFAULT_SONG.tempo,
        !.sections = <<
            [id |-> id0, name |-> <<"Verse 1">>, type |-> "verse",
             timeSignature |-> DEFAULT_TIME_SIGNATURE,
             measures |-> FourEmptyMeasures(DEFAULT_TIME_SIGNATURE, id0 + 2)],
            [id |-> id0 + 1, name |-> <<"Chorus">>, type |-> "chorus",
             timeSignature |-> DEFAULT_TIME_SIGNATURE,
             measures |-> FourEmptyMeasures(DEFAULT_TIME_SIGNATURE, id0 + 10)]>>]

setKey ==
    /\ opCount < MaxOps
    /\ \E key \in {CIRCLE_OF_FIFTHS[k] : k \in 1..12} :
           selectedKey' = key
    /\ opCount' = opCount + 1
    /\ UNCHANGED <<currentSong, selectedSectionId, selectedSlotId, nextId,
                   wheelRotation, wheelMode, tempo>>
    /\ UNCHANGED <<audioVars, voiceVars, exportVars, probeVars, authVars>>

rotateWheel ==
    /\ opCount < MaxOps
    /\ \E direction \in {"cw", "ccw"} :
           wheelRotation' =
               IF wheelMode = "rotating"
               THEN wheelRotation + (IF direction = "cw" THEN -30 ELSE 30)
               ELSE 0
    /\ opCount' = opCount + 1
    /\ UNCHANGED <<currentSong, selectedSectionId, selectedSlotId, nextId,
                   selectedKey, wheelMode, tempo>>
    /\ UNCHANGED <<audioVars, voiceVars, exportVars, probeVars, authVars>>

toggleWheelMode ==
    /\ opCount < MaxOps
    /\ LET newMode == IF wheelMode = "rotating" THEN "fixed" ELSE "rotating"
       IN  /\ wheelMode' = newMode
           /\ wheelRotation' = IF newMode = "rotating"
                               THEN RotationForKey(selectedKey) ELSE 0
    /\ opCount' = opCount + 1
    /\ UNCHANGED <<currentSong, selectedSectionId, selectedSlotId, nextId,
                   selectedKey, tempo>>
    /\ UNCHANGED <<audioVars, voiceVars, exportVars, probeVars, authVars>>

\* a setTempo that leaves the song's own tempo alone
setTempoSongKept(song, newTempo) == song

\* the currentSong setTempo stores: { ...state.currentSong, tempo }
setTempoSong(song, newTempo) == [song EXCEPT !.tempo = newTempo]

setTempo ==
    /\ opCount < MaxOps
    /\ \E newTempo \in TempoInputs :
           /\ tempo' = newTempo
           /\ currentSong' = setTempoSong(currentSong, newTempo)
    /\ opCount' = opCount + 1
    /\ UNCHANGED <<selectedSectionId, selectedSlotId, nextId,
                   selectedKey, wheelRotation, wheelMode>>
    /\ UNCHANGED <<audioVars, voiceVars, exportVars, probeVars, authVars>>

\* titles typed into the song title field
TitleInputs == {"", "Demo"}

setTitle ==
    /\ opCount < MaxOps
    /\ \E title \in TitleInputs :
           currentSong' = [currentSong EXCEPT !.title = title]
    /\ opCount' = opCount + 1
    /\ UNCHANGED <<selectedSectionId, selectedSlotId, nextId, keyVars>>
    /\ UNCHANGED <<audioVars, voiceVars, exportVars, probeVars, authVars>>

loadSong ==
    /\ opCount < MaxOps
    /\ \E song \in LoadSongInputs :
           LET key == IF song.key = "" THEN "C" ELSE song.key
               newTempo == IF song.tempo = <<>> THEN DEFAULT_SONG.tempo ELSE song.tempo[1]
           IN  /\ currentSong' = [song EXCEPT !.tempo = newTempo]
               /\ selectedKey' = key
               /\ wheelRotation' = IF wheelMode = "rotating"
                                   THEN RotationForKey(key) ELSE 0
               /\ tempo' = newTempo
    /\ selectedSectionId' = NoId
    /\ selectedSlotId' = NoId
    /\ opCount' = opCount + 1
    /\ UNCHANGED <<nextId, wheelMode>>
    /\ UNCHANGED <<audioVars, voiceVars, exportVars, probeVars, authVars>>

newSong ==
    /\ opCount < MaxOps
    /\ currentSong' = newSongResult(nextId)
    /\ nextId' = nextId + 18
    /\ selectedKey' = "C"
    /\ wheelRotation' = 0
    /\ selectedSectionId' = NoId
    /\ selectedSlotId' = NoId
    /\ tempo' = DEFAULT_SONG.tempo
    /\ opCount' = opCount + 1
    /\ UNCHANGED wheelMode
    /\ UNCHANGED <<audioVars, voiceVars, exportVars, probeVars, authVars>>

-----------------------------------------------------------------------------
(* The chord wheel's diatonic highlight (ChordWheel component) *)

\* the four segments of a wheel position: the major chord, the two minor
\* slots (left 'ii', right 'iii') and the diminished notch
SegmentTypes == {"major", "ii", "iii", "dim"}

\* getRelativePosition: 0 at I, 1 at V, 11 at IV
getRelativePosition(posIndex, keyIndex) == (posIndex - keyIndex + 12) % 12

isPositionDiatonic(posIndex, type, keyIndex) ==
    LET relPos == getRelativePosition(posIndex, keyIndex)
    IN  CASE type = "major" -> relPos = 0 \/ relPos = 1 \/ relPos = 11
          [] type = "ii" -> relPos = 0
          [] type = "iii" -> relPos = 0
          [] type = "dim" -> relPos = 0
          [] OTHER -> FALSE

\* isViPosition looking at the key's own position instead of V's
isViPositionAtKey(posIndex, keyIndex) ==
    getRelativePosition(posIndex, keyIndex) = 0

\* isViPosition: the left minor slot of the V position is vi
isViPosition(posIndex, keyIndex) ==
    getRelativePosition(posIndex, keyIndex) = 1

\* getRomanNumeral; the degree sign of vii is written "o"
getRomanNumeral(posIndex, type, keyIndex) ==
    LET relPos == getRelativePosition(posIndex, keyIndex)
    IN  CASE type = "major" /\ relPos = 0 -> "I"
          [] type = "major" /\ relPos = 1 -> "V"
          [] type = "major" /\ relPos = 11 -> "IV"
          [] type = "ii" /\ relPos = 0 -> "ii"
          [] type = "ii" /\ relPos = 1 -> "vi"
          [] type = "iii" /\ relPos = 0 -> "iii"
          [] type = "dim" /\ relPos = 0 -> "viio"
          [] OTHER -> ""

\* the diatonic flag the render loop computes for a segment
SegmentIsDiatonic(posIndex, type, keyIndex) ==
    IF type = "ii"
    THEN isPositionDiatonic(posIndex, "ii", keyIndex) \/ isViPosition(posIndex, keyIndex)
    ELSE isPositionDiatonic(posIndex, type, keyIndex)

\* the segments the render loop highlights for a key, over all twelve
\* positions, each with the numeral of its chord object
HighlightedSegments(keyIndex) ==
    {[position |-> i, type |-> type,
      numeral |-> getRomanNumeral(i, type, keyIndex)] :
        <<i, type>> \in {s \in (0..11) \X SegmentTypes :
                            SegmentIsDiatonic(s[1], s[2], keyIndex)}}

\* one segment of the wheel rendered for the selected key
renderSegment ==
    /\ wheelIn # <<>>
    /\ wheelOut = <<>>
    /\ LET keyIndex == CircleIndexOf(wheelIn[1].key)
           i == wheelIn[1].position
           type == wheelIn[1].type
       IN  wheelOut' = <<[numeral |-> getRomanNumeral(i, type, keyIndex),
                          isDiatonic |-> SegmentIsDiatonic(i, type, keyIndex)]>>
    /\ UNCHANGED <<wheelIn, wavIn, wavOut, fxIn, fxOut, renderIn, renderOut>>
    /\ UNCHANGED <<storeVars, audioVars, voiceVars, exportVars, authVars>>

-----------------------------------------------------------------------------
(* createEffectsChain: the parameters of the nodes it builds (exportMidi.ts) *)

\* a mix, depth or amount is counted in hundredths; the wet level of a Tone
\* effect that is given none is 1
FullWet == 100

\* the stages that have an amount or mix setting, with the setting of each
StageSetting ==
    [reverb |-> "reverbMix", delay |-> "delayMix", chorus |-> "chorusMix",
     distortion |-> "distortionAmount", vibrato |-> "vibratoDepth",
     tremolo |-> "tremoloDepth", phaser |-> "phaserMix",
     autoFilter |-> "filterMix", pitchShift |-> "pitchShift"]

\* a value read from the store: a number (in hundredths), undefined when the
\* store has no such field, or the NaN that arithmetic on undefined gives
Num(n) == [kind |-> "number", value |-> n]
Undefined == [kind |-> "undefined", value |-> 0]
NaN == [kind |-> "NaN", value |-> 0]

\* v > 0: false of undefined and of NaN
IsPositive(v) == v.kind = "number" /\ v.value > 0
\* -v
Negated(v) == IF v.kind = "number" THEN Num(-v.value) ELSE NaN

\* the wet level createEffectsChain hands each of those stages (pitchShift
\* is handed none and keeps the node's default)
EffectsChainWet(settings) ==
    [reverb |-> settings.reverbMix,
     delay |-> settings.delayMix,
     chorus |-> settings.chorusMix,
     distortion |-> IF IsPositive(settings.distortionAmount) THEN Num(50) ELSE Num(0),
     vibrato |-> IF IsPositive(settings.vibratoDepth) THEN Num(FullWet) ELSE Num(0),
     tremolo |-> IF IsPositive(settings.tremoloDepth) THEN Num(FullWet) ELSE Num(0),
     phaser |-> settings.phaserMix,
     autoFilter |-> settings.filterMix,
     pitchShift |-> Num(FullWet)]

EffectSettingNames ==
    {"tone", "instrumentGain", "delayFeedback"} \cup
    {StageSetting[s] : s \in DOMAIN StageSetting}

\* what exportSongAsAudio reads from the store of useSongStore.ts, which has
\* none of the twelve fields
UndefinedSettings == [name \in EffectSettingNames |-> Undefined]

\* the settings read from the store: all undefined, or (a store that holds
\* them) every amount or mix at 0 or half way, the tone flat, the gain at 1
\* and the delay feedback at 0.3
EffectSettingsInputs ==
    {UndefinedSettings} \cup
    {[name \in EffectSettingNames |->
          CASE name = "tone" -> Num(0)
            [] name = "instrumentGain" -> Num(100)
            [] name = "delayFeedback" -> Num(30)
            [] OTHER -> IF name \in on THEN Num(50) ELSE Num(0)] :
     on \in SUBSET {StageSetting[s] : s \in DOMAIN StageSetting}}

\* the connect() calls of createEffectsChain: <<node, what it feeds>>
EffectsChainConnections ==
    {<<"limiter", "destination">>, <<"reverb", "limiter">>, <<"delay", "reverb">>,
     <<"chorus", "delay">>, <<"gain", "chorus">>, <<"eq", "gain">>,
     <<"distortion", "eq">>, <<"vibrato", "distortion">>, <<"tremolo", "vibrato">>,
     <<"phaser", "tremolo">>, <<"autoFilter", "phaser">>, <<"pitchShift", "autoFilter">>}

\* createEffectsChain(settings, destination)
buildEffectsChain ==
    /\ fxIn # <<>>
    /\ fxOut = <<>>
    /\ fxOut' = <<[nodes |-> createEffectsChain.nodes,
                   input |-> createEffectsChain.input,
                   connections |-> EffectsChainConnections,
                   gain |-> fxIn[1].instrumentGain,
                   eq |-> [low |-> Negated(fxIn[1].tone), mid |-> Num(0),
                           high |-> fxIn[1].tone],
                   feedback |-> fxIn[1].delayFeedback,
                   wet |-> EffectsChainWet(fxIn[1])]>>
    /\ UNCHANGED <<fxIn, wheelIn, wheelOut, wavIn, wavOut, renderIn, renderOut>>
    /\ UNCHANGED <<storeVars, audioVars, voiceVars, exportVars, authVars>>

-----------------------------------------------------------------------------
(* MIDI export: exportSongAsMidi (exportMidi.ts) *)

\* exportSongAsMidi calls made in one behaviour
MaxExports == 1

\* the music sharp and flat signs, written "(U+266F)" and "(U+266D)" here
SharpSign == "(U+266F)"
FlatSign == "(U+266D)"

\* String.prototype.replace with a string pattern, on a name kept as its
\* characters: the first occurrence is replaced, the others stay
RECURSIVE ReplaceFirst(_, _, _)
ReplaceFirst(chars, from, to) ==
    IF chars = <<>> THEN <<>>
    ELSE IF Head(chars) = from THEN <<to>> \o Tail(chars)
    ELSE <<Head(chars)>> \o ReplaceFirst(Tail(chars), from, to)

RECURSIVE Joined(_)
Joined(chars) == IF chars = <<>> THEN "" ELSE Head(chars) \o Joined(Tail(chars))

\* the note names that hold a music sign, as their characters: a letter and
\* up to two signs
SignedNames ==
    {<<letter>> \o signs :
        letter \in {"A", "B", "C", "D", "E", "F", "G"},
        signs \in UNION {[1..n -> {SharpSign, FlatSign}] : n \in 1..2}}

\* noteToMidiPitch: note.replace(sharp, '#').replace(flat, 'b'); a name
\* without a sign is returned as it is
noteToMidiPitch(note) ==
    LET spelled == {chars \in SignedNames : Joined(chars) = note.name}
    IN  IF spelled = {} THEN note
        ELSE [note EXCEPT !.name =
                 Joined(ReplaceFirst(ReplaceFirst(CHOOSE chars \in spelled : TRUE,
                                                  SharpSign, "#"),
                                     FlatSign, "b"))]

\* durationToTicks: Math.round(durationBeats * 128), of a duration in units
durationToTicks(durationBeats) ==
    (2 * 128 * durationBeats + DurScale) \div (2 * DurScale)

\* the forEach loops of exportSongAsMidi over the beats in song order: a
\* NoteEvent for a beat whose chord has notes, the cursor advanced by every beat
RECURSIVE MidiEventsFrom(_, _, _)
MidiEventsFrom(beats, tickPosition, velocity) ==
    IF beats = <<>> THEN [events |-> <<>>, tickPosition |-> tickPosition]
    ELSE LET beat == Head(beats)
             rest == MidiEventsFrom(Tail(beats),
                         tickPosition + durationToTicks(beat.duration), velocity)
         IN  IF beat.chord # NoChord /\ Len(beat.chord[1].notes) > 0
             THEN [rest EXCEPT !.events =
                      <<[pitch |-> MapSeq(beat.chord[1].notes, noteToMidiPitch),
                         duration |-> durationToTicks(beat.duration),
                         velocity |-> velocity,
                         startTick |-> tickPosition]>> \o @]
             ELSE rest

\* exportSongAsMidi: the tempo is set, then the destructuring of
\* song.timeSignature throws on a song that has none and the call ends
\* with nothing more on its track and no blob; else the track is written
exportSongAsMidiResult(song, velocity) ==
    IF song.timeSignature = <<>>
    THEN [threw |-> TRUE,
          tempo |-> song.tempo,
          timeSignature |-> <<>>,
          trackName |-> "",
          events |-> <<>>,
          tickPosition |-> 0]
    ELSE LET looped == MidiEventsFrom(SongBeats(song.sections), 0, velocity)
         IN  [threw |-> FALSE,
              tempo |-> song.tempo,
              timeSignature |-> song.timeSignature,
              trackName |-> song.title,
              events |-> looped.events,
              tickPosition |-> looped.tickPosition]

\* options.velocity: left out (100) or given
VelocityInputs == {100, 64}

IdleMidi == [calls |-> 0, track |-> <<>>, song |-> <<>>, threw |-> FALSE]

\* exportSongAsMidi(currentSong, options), as the export menu calls it
exportSongAsMidi ==
    /\ midi.calls < MaxExports
    /\ \E velocity \in VelocityInputs :
           LET result == exportSongAsMidiResult(currentSong, velocity)
           IN  midi' = [calls |-> midi.calls + 1,
                        track |-> IF result.threw THEN <<>>
                                  ELSE <<[r \in {"tempo", "timeSignature", "trackName",
                                                  "events", "tickPosition"} |->
                                             result[r]]>>,
                        song |-> <<currentSong>>,
                        threw |-> result.threw]
    /\ UNCHANGED storeVars
    /\ UNCHANGED <<exp, audioVars, voiceVars, probeVars, authVars>>

-----------------------------------------------------------------------------
(* audioBufferToWav applied to drawn buffers *)

\* channels of the buffers encoded
MaxChannels == 2

\* sample values: inside, on and beyond the range [-1, 1], and the non-finite
SampleInputs ==
    {Sample("finite", u) : u \in {-2 * SampleScale, -SampleScale - 1, -SampleScale, -1,
                                  1, SampleScale - 1, SampleScale, SampleScale + 1,
                                  2 * SampleScale}}
    \cup {Sample("NaN", 0), Sample("Infinity", 0), Sample("-Infinity", 0)}

\* buffers of 1..MaxFrames frames and 1..MaxChannels channels: silence or a
\* quarter-scale level everywhere but in one frame of one channel
WavInputs ==
    {[numberOfChannels |-> t[1], sampleRate |-> t[2], length |-> t[3],
      channelData |-> [c \in 1..t[1] |-> [i \in 1..t[3] |->
                          IF c = t[4] /\ i = t[5] THEN t[6] ELSE t[7]]]] :
     t \in {u \in (1..MaxChannels) \X {44100, 22050} \X (1..MaxFrames)
                  \X (1..MaxChannels) \X (1..MaxFrames) \X SampleInputs
                  \X {Silence, Sample("finite", 1)} :
              u[4] <= u[1] /\ u[5] <= u[3]}}

\* audioBufferToWav(buffer) for a buffer whose get() is an AudioBuffer
encodeWav ==
    /\ wavIn # <<>>
    /\ wavOut = <<>>
    /\ wavOut' = audioBufferToWav(wavIn).blob
    /\ UNCHANGED <<wavIn, wheelIn, wheelOut, fxIn, fxOut, renderIn, renderOut>>
    /\ UNCHANGED <<storeVars, audioVars, voiceVars, exportVars, authVars>>

-----------------------------------------------------------------------------
(* Two offline exports of the same request (exportSongAsAudio, exportMidi.ts) *)

\* offline exports made of one request
MaxRuns == 2

\* the settings exportSongAsAudio reads from the store: all undefined,
\* everything off, or only the reverb mixed in half way
RenderSettingsInputs ==
    {s \in EffectSettingsInputs :
        \/ s = UndefinedSettings
        \/ \A st \in DOMAIN StageSetting :
               st # "reverb" => s[StageSetting[st]] = Num(0)}

SampleRateInputs == {44100, 48000}

\* an export request: the arguments of exportSongAsAudio and the effect
\* settings the store holds when it is called
RenderInputs ==
    [song : ExportSongInputs, instrumentType : {"piano", "organ"},
     settings : RenderSettingsInputs, wet : BOOLEAN, sampleRate : SampleRateInputs]

\* the impulse response a Tone.Reverb holds: built from noise when the node
\* is constructed, one sign per frame here
ImpulseResponses == [1..MaxFrames -> {-1, 1}]

\* the level, in 1/SampleScale, an instrument sounds a trigger at
DryLevel(instrument) == IF instrument.kind = "Sampler" THEN 2 ELSE 1

\* what Tone.Offline renders: a stereo buffer whose frames hold the dry
\* signal of the schedule, mixed (wet only) with the reverb's response to it;
\* a reverb handed no number as its wet level is taken at the node's default
OfflineBuffer(triggers, instrument, chain, impulse, sampleRate) ==
    LET dry == IF triggers # <<>> /\ triggers[1].time.num = 0
               THEN DryLevel(instrument) ELSE 0
        wet == IF chain = <<>> THEN Num(0) ELSE chain[1].wet.reverb
        mix == IF wet.kind = "number" THEN wet.value ELSE FullWet
        frame(i) == IF mix = 0 THEN dry
                    ELSE Trunc(dry * (FullWet - mix) + dry * impulse[1][i] * mix, FullWet)
    IN  [numberOfChannels |-> 2, sampleRate |-> sampleRate, length |-> MaxFrames,
         channelData |-> [c \in 1..2 |-> [i \in 1..MaxFrames |-> Sample("finite", frame(i))]]]

RunIds == 1..MaxRuns

\* exportSongAsAudio called with the request, up to its first await: the
\* duration, the settings read from the store, the chain (wet only; its
\* reverb draws an impulse response) and createInstrumentForExport, which
\* constructs and connects the instrument or throws on the way
offlineExport ==
    /\ renderIn # <<>>
    /\ Len(renderOut) < MaxRuns
    /\ LET req == renderIn[1]
           instrument == InstrumentForExport(req.instrumentType)
           chain == IF req.wet
                    THEN <<[nodes |-> createEffectsChain.nodes,
                            input |-> createEffectsChain.input,
                            wet |-> EffectsChainWet(req.settings)]>>
                    ELSE <<>>
       IN  \E impulse \in IF req.wet THEN {<<ir>> : ir \in ImpulseResponses} ELSE {<<>>},
              threw \in InstrumentOutcomes :
               LET isBuilt == threw # "constructor"
               IN  renderOut' = Append(renderOut,
                       [pc |-> "awaitInstrument",
                        duration |-> calculateSongDuration(req.song),
                        chain |-> chain,
                        impulse |-> impulse,
                        instrument |-> IF isBuilt THEN <<instrument>> ELSE <<>>,
                        samples |-> IF isBuilt /\ instrument.kind = "Sampler"
                                    THEN "loading" ELSE "none",
                        threw |-> threw,
                        schedule |-> <<>>,
                        buffer |-> <<>>,
                        blob |-> <<>>,
                        error |-> <<>>])
    /\ UNCHANGED <<renderIn, wheelIn, wheelOut, wavIn, wavOut, fxIn, fxOut>>
    /\ UNCHANGED <<storeVars, audioVars, voiceVars, exportVars, authVars>>

\* the rejection of createInstrumentForExport is the export's result
offlineInstrumentThrows(k) ==
    /\ k <= Len(renderOut)
    /\ renderOut[k].pc = "awaitInstrument"
    /\ renderOut[k].threw # "none"
    /\ renderOut' = [renderOut EXCEPT ![k].pc = "failed",
                                      ![k].error = <<"instrument">>]
    /\ UNCHANGED <<renderIn, wheelIn, wheelOut, wavIn, wavOut, fxIn, fxOut>>
    /\ UNCHANGED <<storeVars, audioVars, voiceVars, exportVars, authVars>>

\* a sample fails to load: onload never runs and the export stays pending
offlineSamplesFail(k) ==
    /\ k <= Len(renderOut)
    /\ renderOut[k].pc = "awaitInstrument"
    /\ renderOut[k].threw = "none"
    /\ renderOut[k].samples = "loading"
    /\ renderOut' = [renderOut EXCEPT ![k].samples = "failed"]
    /\ UNCHANGED <<renderIn, wheelIn, wheelOut, wavIn, wavOut, fxIn, fxOut>>
    /\ UNCHANGED <<storeVars, audioVars, voiceVars, exportVars, authVars>>

\* createInstrumentForExport resolves: the callback schedules every chord
\* and starts the transport
offlineInstrumentReady(k) ==
    /\ k <= Len(renderOut)
    /\ renderOut[k].pc = "awaitInstrument"
    /\ renderOut[k].threw = "none"
    /\ renderOut[k].samples \in {"none", "loading"}
    /\ renderOut' = [renderOut EXCEPT
                        ![k].pc = "rendering",
                        ![k].samples = IF @ = "loading" THEN "loaded" ELSE "none",
                        ![k].schedule = ExportSchedule(renderIn[1].song)]
    /\ UNCHANGED <<renderIn, wheelIn, wheelOut, wavIn, wavOut, fxIn, fxOut>>
    /\ UNCHANGED <<storeVars, audioVars, voiceVars, exportVars, authVars>>

\* Tone.Offline resolves with the rendered buffer (or with none) and
\* audioBufferToWav encodes it, or throws
offlineRendered(k) ==
    /\ k <= Len(renderOut)
    /\ renderOut[k].pc = "rendering"
    /\ LET run == renderOut[k]
       IN  \E buffer \in {<<>>, <<OfflineBuffer(run.schedule, run.instrument[1],
                                               run.chain, run.impulse,
                                               renderIn[1].sampleRate)>>} :
               LET wav == audioBufferToWav(buffer)
               IN  renderOut' = [renderOut EXCEPT
                                    ![k].pc = IF wav.error = <<>> THEN "done" ELSE "failed",
                                    ![k].buffer = buffer,
                                    ![k].blob = wav.blob,
                                    ![k].error = wav.error]
    /\ UNCHANGED <<renderIn, wheelIn, wheelOut, wavIn, wavOut, fxIn, fxOut>>
    /\ UNCHANGED <<storeVars, audioVars, voiceVars, exportVars, authVars>>

-----------------------------------------------------------------------------
(* The auth store (authStore.ts) *)

AuthEvents ==
    {"SIGNED_IN", "SIGNED_OUT", "USER_UPDATED", "PASSWORD_RECOVERY",
     "TOKEN_REFRESHED", "INITIAL_SESSION"}
AuthViews == {"sign_in", "sign_up", "forgotten_password", "update_password"}

\* the store as create() builds it; session and user are kept as "is there one"
InitialAuthState ==
    [hasSession |-> FALSE,
     loading |-> TRUE,
     isPasswordRecovery |-> FALSE,
     wasPasswordJustUpdated |-> FALSE,
     isNewUser |-> FALSE,
     isAuthModalOpen |-> FALSE,
     authDefaultView |-> "sign_in",
     authError |-> <<>>]

\* the listener of an earlier version: recovery mode is whatever the last
\* event says
authListenerByLastEvent(state, event, hasSession, isRecentlyCreated) ==
    [state EXCEPT
        !.hasSession = hasSession,
        !.loading = FALSE,
        !.isPasswordRecovery = (event = "PASSWORD_RECOVERY"),
        !.isAuthModalOpen = (event = "PASSWORD_RECOVERY")]

\* the onAuthStateChange callback: the state its set() leaves
authListener(state, event, hasSession, isRecentlyCreated) ==
    IF event \in {"USER_UPDATED", "SIGNED_OUT"}
    THEN [state EXCEPT
             !.hasSession = hasSession,
             !.loading = FALSE,
             !.isPasswordRecovery = FALSE,
             !.wasPasswordJustUpdated = (event = "USER_UPDATED" /\ state.isPasswordRecovery),
             !.isAuthModalOpen = IF event = "USER_UPDATED" THEN FALSE
                                 ELSE state.isAuthModalOpen,
             !.authDefaultView = "sign_in"]
    ELSE IF event = "PASSWORD_RECOVERY"
    THEN [state EXCEPT
             !.hasSession = hasSession,
             !.loading = FALSE,
             !.isPasswordRecovery = TRUE,
             !.isAuthModalOpen = TRUE,
             !.authDefaultView = "update_password"]
    ELSE IF /\ event = "SIGNED_IN" /\ hasSession /\ ~state.isPasswordRecovery
            /\ isRecentlyCreated
    THEN [state EXCEPT
             !.hasSession = hasSession,
             !.loading = FALSE,
             !.isNewUser = TRUE]
    ELSE [state EXCEPT
             !.hasSession = hasSession,
             !.loading = FALSE,
             !.isAuthModalOpen = state.isPasswordRecovery \/ state.isAuthModalOpen,
             !.authDefaultView = IF state.isPasswordRecovery THEN "update_password"
                                 ELSE state.authDefaultView]

\* the set() of initialize after getSession has resolved
sessionCheckResult(state, hasSession, isRecoveryFromHash) ==
    [state EXCEPT
        !.hasSession = hasSession,
        !.loading = FALSE,
        !.isPasswordRecovery = state.isPasswordRecovery \/ isRecoveryFromHash,
        !.isAuthModalOpen = state.isPasswordRecovery \/ state.isAuthModalOpen
                                \/ isRecoveryFromHash,
        !.authDefaultView = IF state.isPasswordRecovery \/ isRecoveryFromHash
                            THEN "update_password" ELSE state.authDefaultView]

\* initialize calls followed in one behaviour
MaxInits == 2
InitIds == 1..MaxInits

\* what the URL hash holds of an auth error: none, an error_description that
\* decodes, or one that decodeURIComponent rejects with a URIError
HashErrors == {"none", "decodable", "malformed"}

\* no initialize call has been made and no listener is registered. `inits`
\* holds the calls made so far, each with its position and the
\* isRecoveryFromHash it read; `listeners` counts the registered listeners;
\* `last` is the step taken last and `exited` tells that a USER_UPDATED or
\* SIGNED_OUT event has been processed with no PASSWORD_RECOVERY event since
IdleAuthProc ==
    [inits |-> <<>>, listeners |-> 0,
     last |-> [kind |-> "none", event |-> ""], exited |-> FALSE]

\* initialize up to its await or to its catch: the state its set() calls
\* leave. A recovery link sets the recovery state at once; a malformed
\* error_description throws before the listener is registered and the catch
\* clears loading
initializeSync(state, isRecoveryFromHash, hashError) ==
    LET flagged == IF isRecoveryFromHash
                   THEN [state EXCEPT !.isPasswordRecovery = TRUE,
                                      !.isAuthModalOpen = TRUE,
                                      !.authDefaultView = "update_password"]
                   ELSE state
    IN  IF hashError = "malformed"
        THEN [state |-> [flagged EXCEPT !.loading = FALSE], threw |-> TRUE]
        ELSE [state |-> flagged, threw |-> FALSE]

\* a call of initialize (nothing keeps it from being called again): the hash
\* is read, and unless the read throws one more listener is registered and
\* getSession is awaited
initialize ==
    /\ Len(authProc.inits) < MaxInits
    /\ \E isRecoveryFromHash \in BOOLEAN, hashError \in HashErrors :
           LET r == initializeSync(auth, isRecoveryFromHash, hashError)
           IN  /\ auth' = r.state
               /\ authProc' = [authProc EXCEPT
                      !.inits = Append(@, [pc |-> IF r.threw THEN "done"
                                                  ELSE "awaitSession",
                                           isRecoveryFromHash |-> isRecoveryFromHash]),
                      !.listeners = IF r.threw THEN @ ELSE @ + 1,
                      !.last = [kind |-> IF r.threw THEN "initializeThrew"
                                         ELSE "initialize",
                                event |-> ""]]
    /\ UNCHANGED <<storeVars, audioVars, voiceVars, exportVars, probeVars>>

\* one auth state change handed to each registered listener in turn
RECURSIVE authListeners(_, _, _, _, _)
authListeners(state, count, event, hasSession, isRecentlyCreated) ==
    IF count = 0 THEN state
    ELSE authListeners(authListener(state, event, hasSession, isRecentlyCreated),
                       count - 1, event, hasSession, isRecentlyCreated)

\* an auth state change delivered to the listeners
authEvent ==
    /\ authProc.listeners > 0
    /\ \E event \in AuthEvents, hasSession \in BOOLEAN, isRecentlyCreated \in BOOLEAN :
           /\ (event = "SIGNED_OUT" => ~hasSession)
           /\ (event \in {"SIGNED_IN", "USER_UPDATED", "PASSWORD_RECOVERY",
                          "TOKEN_REFRESHED"} => hasSession)
           /\ auth' = authListeners(auth, authProc.listeners, event, hasSession,
                                    isRecentlyCreated)
           /\ authProc' = [authProc EXCEPT
                  !.last = [kind |-> "event", event |-> event],
                  !.exited = IF event \in {"USER_UPDATED", "SIGNED_OUT"} THEN TRUE
                             ELSE IF event = "PASSWORD_RECOVERY" THEN FALSE
                             ELSE @]
    /\ UNCHANGED <<storeVars, audioVars, voiceVars, exportVars, probeVars>>

\* getSession resolves and the call makes its final set()
initializeSessionChecked(k) ==
    /\ k <= Len(authProc.inits)
    /\ authProc.inits[k].pc = "awaitSession"
    /\ \E hasSession \in BOOLEAN :
           auth' = sessionCheckResult(auth, hasSession,
                                      authProc.inits[k].isRecoveryFromHash)
    /\ authProc' = [authProc EXCEPT !.inits[k].pc = "done",
                                    !.last = [kind |-> "sessionCheck", event |-> ""]]
    /\ UNCHANGED <<storeVars, audioVars, voiceVars, exportVars, probeVars>>

\* getSession rejects: the catch of initialize
initializeFailed(k) ==
    /\ k <= Len(authProc.inits)
    /\ authProc.inits[k].pc = "awaitSession"
    /\ auth' = [auth EXCEPT !.loading = FALSE]
    /\ authProc' = [authProc EXCEPT !.inits[k].pc = "done",
                                    !.last = [kind |-> "initializeFailed", event |-> ""]]
    /\ UNCHANGED <<storeVars, audioVars, voiceVars, exportVars, probeVars>>

\* signOut, at the set() that follows its awaits; the song store of this
\* source has no resetState, so the call after the set() changes no state
signOut ==
    /\ auth' = [auth EXCEPT !.hasSession = FALSE,
                            !.isPasswordRecovery = FALSE,
                            !.authDefaultView = "sign_in"]
    /\ authProc' = [authProc EXCEPT !.last = [kind |-> "signOut", event |-> ""]]
    /\ UNCHANGED <<storeVars, audioVars, voiceVars, exportVars, probeVars>>

resetPasswordRecovery ==
    /\ auth' = [auth EXCEPT !.isPasswordRecovery = FALSE,
                            !.authDefaultView = "sign_in"]
    /\ authProc' = [authProc EXCEPT !.last = [kind |-> "resetPasswordRecovery", event |-> ""]]
    /\ UNCHANGED <<storeVars, audioVars, voiceVars, exportVars, probeVars>>

setAuthModalOpen ==
    /\ \E open \in BOOLEAN :
           auth' = [auth EXCEPT
                       !.isAuthModalOpen = open,
                       !.authDefaultView = IF open THEN auth.authDefaultView
                                           ELSE "sign_in"]
    /\ authProc' = [authProc EXCEPT !.last = [kind |-> "setAuthModalOpen", event |-> ""]]
    /\ UNCHANGED <<storeVars, audioVars, voiceVars, exportVars, probeVars>>

setAuthDefaultView ==
    /\ \E view \in AuthViews :
           auth' = [auth EXCEPT !.authDefaultView = view, !.authError = <<>>]
    /\ authProc' = [authProc EXCEPT !.last = [kind |-> "setAuthDefaultView", event |-> ""]]
    /\ UNCHANGED <<storeVars, audioVars, voiceVars, exportVars, probeVars>>

clearPasswordUpdatedFlag ==
    /\ auth' = [auth EXCEPT !.wasPasswordJustUpdated = FALSE]
    /\ authProc' = [authProc EXCEPT
                       !.last = [kind |-> "clearPasswordUpdatedFlag", event |-> ""]]
    /\ UNCHANGED <<storeVars, audioVars, voiceVars, exportVars, probeVars>>

clearIsNewUserFlag ==
    /\ auth' = [auth EXCEPT !.isNewUser = FALSE]
    /\ authProc' = [authProc EXCEPT !.last = [kind |-> "clearIsNewUserFlag", event |-> ""]]
    /\ UNCHANGED <<storeVars, audioVars, voiceVars, exportVars, probeVars>>

\* messages the auth form hands to setAuthError: none, or what a failed
\* sign-in reports
AuthErrorInputs == {<<>>, <<"Invalid login credentials">>}

setAuthError ==
    /\ \E error \in AuthErrorInputs : auth' = [auth EXCEPT !.authError = error]
    /\ authProc' = [authProc EXCEPT !.last = [kind |-> "setAuthError", event |-> ""]]
    /\ UNCHANGED <<storeVars, audioVars, voiceVars, exportVars, probeVars>>

-----------------------------------------------------------------------------
(* Initial states and specifications *)

StoreInit ==
    /\ currentSong = DEFAULT_SONG
    /\ selectedSectionId = NoId
    /\ selectedSlotId = NoId
    /\ nextId = FirstFreeId
    /\ opCount = 0
    /\ selectedKey = "C"
    /\ wheelRotation = 0
    /\ wheelMode = "fixed"
    /\ tempo = 120

AudioInit ==
    /\ instruments = [n \in InstrumentNames |-> "null"]
    /\ constructed = [n \in InstrumentNames |-> 0]
    /\ currentInstrument = "piano"
    /\ ctxState = "suspended"
    /\ loadState = "idle"
    /\ calls = [c \in CallIds |-> IdleCall]
    /\ sounding = [n \in InstrumentNames |-> 0]
    /\ triggerLog = <<>>
    /\ stops = [count |-> 0, threw |-> FALSE, kinds |-> {}, fresh |-> FALSE]
    /\ transport = [now |-> 0, pending |-> {}, scheduled |-> FALSE,
                    stopsAtSchedule |-> 0]

VoiceIdle ==
    /\ voiceIn = <<>>
    /\ voiceOut = <<>>

ExportInit == exp = IdleExport /\ midi = IdleMidi

RenderIdle == renderIn = <<>> /\ renderOut = <<>>

ProbeIdle ==
    /\ wheelIn = <<>> /\ wheelOut = <<>>
    /\ wavIn = <<>> /\ wavOut = <<>>
    /\ fxIn = <<>> /\ fxOut = <<>>
    /\ RenderIdle

AuthInit == auth = InitialAuthState /\ authProc = IdleAuthProc

Init == StoreInit /\ AudioInit /\ VoiceIdle /\ ExportInit /\ ProbeIdle /\ AuthInit

\* the song store under its editing operations
NextStore ==
    \/ addSection
    \/ updateSection
    \/ removeSection
    \/ duplicateSection
    \/ setSectionMeasures
    \/ setSectionTimeSignature
    \/ setMeasureSubdivision
    \/ addChordToSlot
    \/ clearSlot
    \/ moveChord
SpecStore == Init /\ [][NextStore]_vars

\* the audio engine under concurrent playChord calls
NextPlay ==
    \/ \E c \in CallIds : playChord(c)
    \/ \E c \in CallIds : playChordStarted(c)
    \/ \E c \in CallIds : playChordInitDone(c)
    \/ \E c \in CallIds : playChordInitThrew(c)
    \/ samplesLoaded
    \/ samplesFailed
    \/ initAudio
    \/ setInstrument
    \/ stopAudio
SpecPlay == Init /\ [][NextPlay]_vars

\* the audio engine driven by the transport
NextSched ==
    \/ initAudio
    \/ samplesLoaded
    \/ samplesFailed
    \/ schedule
    \/ transportTick
    \/ stopAudio
SpecSched == Init /\ [][NextSched]_vars

\* the voicing applied to every drawn note list
InitVoice ==
    /\ StoreInit /\ AudioInit /\ ExportInit /\ ProbeIdle /\ AuthInit
    /\ voiceIn \in VoiceInputs
    /\ voiceOut = <<>>
NextVoice == voiceChord
SpecVoice == InitVoice /\ [][NextVoice]_vars

\* one offline export
NextExport ==
    \/ exportSongAsAudio
    \/ exportInstrumentThrows
    \/ exportSamplesFail
    \/ exportInstrumentReady
    \/ exportRendered
SpecExport == Init /\ [][NextExport]_vars

\* every segment of the wheel rendered for every key
InitWheel ==
    /\ StoreInit /\ AudioInit /\ VoiceIdle /\ ExportInit /\ RenderIdle /\ AuthInit
    /\ wavIn = <<>> /\ wavOut = <<>>
    /\ fxIn = <<>> /\ fxOut = <<>>
    /\ wheelIn \in {<<[key |-> CIRCLE_OF_FIFTHS[k], position |-> i, type |-> type]>> :
                        k \in 1..12, i \in 0..11, type \in SegmentTypes}
    /\ wheelOut = <<>>
NextWheel == renderSegment
SpecWheel == InitWheel /\ [][NextWheel]_vars

\* the effects chain built for every drawn setting
InitEffects ==
    /\ StoreInit /\ AudioInit /\ VoiceIdle /\ ExportInit /\ RenderIdle /\ AuthInit
    /\ wavIn = <<>> /\ wavOut = <<>>
    /\ wheelIn = <<>> /\ wheelOut = <<>>
    /\ fxIn \in {<<settings>> : settings \in EffectSettingsInputs}
    /\ fxOut = <<>>
NextEffects == buildEffectsChain
SpecEffects == InitEffects /\ [][NextEffects]_vars

\* the encoder applied to every drawn buffer
InitWav ==
    /\ StoreInit /\ AudioInit /\ VoiceIdle /\ ExportInit /\ RenderIdle /\ AuthInit
    /\ wheelIn = <<>> /\ wheelOut = <<>>
    /\ fxIn = <<>> /\ fxOut = <<>>
    /\ wavIn \in {<<b>> : b \in WavInputs}
    /\ wavOut = <<>>
NextWav == encodeWav
SpecWav == InitWav /\ [][NextWav]_vars

\* the song edited in the store and exported as MIDI
NextMidi == NextStore \/ loadSong \/ exportSongAsMidi
SpecMidi == Init /\ [][NextMidi]_vars

\* the song store with a slot selected while the song is edited
NextSelect == NextStore \/ setSelectedSlot \/ selectNextSlotAfter \/ reorderSections
SpecSelect == Init /\ [][NextSelect]_vars

\* an export request made MaxRuns times
InitRender ==
    /\ StoreInit /\ AudioInit /\ VoiceIdle /\ ExportInit /\ AuthInit
    /\ wheelIn = <<>> /\ wheelOut = <<>>
    /\ wavIn = <<>> /\ wavOut = <<>>
    /\ fxIn = <<>> /\ fxOut = <<>>
    /\ renderIn \in {<<r>> : r \in RenderInputs}
    /\ renderOut = <<>>
NextRender ==
    \/ offlineExport
    \/ \E k \in RunIds : offlineInstrumentThrows(k)
    \/ \E k \in RunIds : offlineSamplesFail(k)
    \/ \E k \in RunIds : offlineInstrumentReady(k)
    \/ \E k \in RunIds : offlineRendered(k)
SpecRender == InitRender /\ [][NextRender]_vars

\* the auth store under initialize, listener events and its actions
NextAuth ==
    \/ initialize
    \/ authEvent
    \/ \E k \in InitIds : initializeSessionChecked(k)
    \/ \E k \in InitIds : initializeFailed(k)
    \/ signOut
    \/ resetPasswordRecovery
    \/ setAuthModalOpen
    \/ setAuthDefaultView
    \/ clearPasswordUpdatedFlag
    \/ clearIsNewUserFlag
    \/ setAuthError
SpecAuth == Init /\ [][NextAuth]_vars

\* the store under its key, wheel, tempo and song-replacing operations
NextSession ==
    \/ setKey
    \/ rotateWheel
    \/ toggleWheelMode
    \/ setTempo
    \/ loadSong
    \/ newSong
SpecSession == Init /\ [][NextSession]_vars

\* the song store under every operation that stores a song or a tempo
NextSong == NextStore \/ NextSession \/ setTitle \/ reorderSections
SpecSong == Init /\ [][NextSong]_vars

Next == NextStore \/ NextPlay \/ NextSched \/ NextExport \/ NextMidi \/ NextWav \/ NextSession \/ NextWheel \/ NextEffects \/ NextAuth \/ NextRender \/ NextSelect \/ NextSong
Spec == Init /\ [][Next]_vars

-----------------------------------------------------------------------------
(* Properties *)

\* numerator * (4 / denominator), in duration units
BeatCountOf(signature) == (signature[1] * 4 * DurScale) \div signature[2]

\* the pitch class a note name denotes, sharps and flats alike
PitchClass(name) ==
    CASE name = "C" -> 0
      [] name \in {"C#", "Db"} -> 1
      [] name = "D" -> 2
      [] name \in {"D#", "Eb"} -> 3
      [] name = "E" -> 4
      [] name = "F" -> 5
      [] name \in {"F#", "Gb"} -> 6
      [] name = "G" -> 7
      [] name \in {"G#", "Ab"} -> 8
      [] name = "A" -> 9
      [] name \in {"A#", "Bb"} -> 10
      [] name = "B" -> 11

\* the pitch of a note with an octave, in semitones
Pitch(note) == 12 * note.oct + PitchClass(note.name)

OctaveLess(notes) == \A k \in 1..Len(notes) : notes[k].oct = NoOct

\* C1: after any sequence of editing operations from the default song, the
\* beat durations of every measure of every section sum to
\* numerator * (4 / denominator) of that section's time signature.
C1_MeasuresFillSignature ==
    \A i \in 1..Len(currentSong.sections) :
        LET section == currentSong.sections[i]
        IN  \A j \in 1..Len(section.measures) :
                SumSeq(MapSeq(section.measures[j].beats, LAMBDA b : b.duration))
                    = BeatCountOf(section.timeSignature)

\* C2: once events have been scheduled and stop has been called, no trigger
\* of the transport fires: every transport trigger fired with as many stops
\* made as there were when its events were scheduled.
C2_NoTriggerAfterStop ==
    \A i \in 1..Len(triggerLog) :
        triggerLog[i].source = "transport"
            => triggerLog[i].stops = transport.stopsAtSchedule

\* C3: stopAudio never fails, whatever state the engine is in, and a call
\* that directly follows another stopAudio call leaves the engine state as
\* that call left it.
C3_StopSafeAndIdempotent ==
    [][stops'.count = stops.count + 1
          => /\ ~stops'.threw
             /\ stops.fresh => engineState' = engineState]_vars

\* C3's case: stopAudio has been called before initAudio, while the samples
\* were loading, while notes were sounding and right after another stop.
C3_Witness ==
    /\ stops.kinds = {"beforeInit", "loading", "sounding", "afterStop"}
    /\ ~stops.threw

\* C4: no instrument is triggered before the sample loading started by
\* initAudio has completed.
C4_NoTriggerBeforeLoaded ==
    \A i \in 1..Len(triggerLog) : triggerLog[i].loadState = "loaded"

\* C5: when creating the instrument fails after the effects chain was built,
\* every node of the chain has been disposed by the time the export fails.
C5_ChainDisposedOnFailure ==
    (exp.pc = "failed" /\ exp.failedAt = "instrument")
        => \A k \in 1..Len(exp.chain) : exp.chain[k] \in exp.disposed

\* C6: when the render hands back no usable buffer the export fails with an
\* error that reaches its caller, and no Blob is produced.
C6_NoBufferNoFile ==
    (exp.rendered /\ exp.buffer = <<>>)
        => /\ exp.pc = "failed"
           /\ exp.error # <<>>
           /\ exp.blob = <<>>

\* C6's case: a render has ended without a buffer.
C6_Witness ==
    /\ exp.rendered
    /\ exp.buffer = <<>>
    /\ exp.pc = "failed"

\* C7: a playChord call for a non-empty chord does not end without a
\* trigger: the selected instrument or a default voice sounds it.
C7_NonEmptyChordSounds ==
    \A c \in CallIds :
        (calls[c].pc = "done" /\ calls[c].notes # <<>>)
            => calls[c].outcome = "triggered"

\* C8: for octave-less note names the root is voiced in octave 3 and no
\* other voiced note is lower in pitch than the voiced root.
C8_RootIsLowest ==
    (voiceOut # <<>> /\ OctaveLess(voiceIn))
        => /\ voiceOut[1].oct = 3
           /\ \A k \in 2..Len(voiceOut) : Pitch(voiceOut[k]) >= Pitch(voiceOut[1])

\* C9: an octave-less note at index 0-3 is voiced in octave 3 or 4, at
\* index 4 in octave 4, at index 5 and up in octave 5.
C9_OctaveByIndex ==
    voiceOut # <<>>
        => \A k \in 1..Len(voiceOut) :
               voiceIn[k].oct = NoOct
                   => /\ (k - 1 <= 3 => voiceOut[k].oct \in {3, 4})
                      /\ (k - 1 = 4 => voiceOut[k].oct = 4)
                      /\ (k - 1 >= 5 => voiceOut[k].oct = 5)

\* C9's case: a list of six octave-less notes has been voiced.
C9_Witness ==
    /\ Len(voiceOut) >= 6
    /\ OctaveLess(voiceIn)
    /\ voiceOut[5].oct = 4
    /\ voiceOut[6].oct = 5

\* C10: a note that carries an octave is voiced as itself at its position,
\* and the voiced list has the length and the note names of the input, in
\* the input's order.
C10_ExplicitOctaveKept ==
    voiceOut # <<>>
        => /\ Len(voiceOut) = Len(voiceIn)
           /\ \A k \in 1..Len(voiceIn) :
                  /\ voiceOut[k].name = voiceIn[k].name
                  /\ voiceIn[k].oct # NoOct => voiceOut[k] = voiceIn[k]

\* C10's case: a list with an explicit octave past the root, among
\* octave-less notes, has been voiced.
C10_Witness ==
    /\ Len(voiceOut) >= 6
    /\ voiceIn[1].oct = NoOct
    /\ voiceIn[6].oct = 2
    /\ voiceOut[6].oct = 2

-----------------------------------------------------------------------------
(* Properties of the MIDI export *)

\* the whole number of ticks nearest to a duration (128 ticks per beat)
NearestTicks(duration) ==
    CHOOSE n \in {(128 * duration) \div DurScale, (128 * duration) \div DurScale + 1} :
        /\ 2 * 128 * duration - DurScale < 2 * n * DurScale
        /\ 2 * n * DurScale <= 2 * 128 * duration + DurScale

\* the ticks the first j beats of a list take
TicksOfFirst(beats, j) ==
    SumSeq([i \in 1..j |-> NearestTicks(beats[i].duration)])

\* the positions of the beats that hold a chord with at least one note
SoundingBeats(beats) ==
    {j \in 1..Len(beats) : beats[j].chord # NoChord /\ beats[j].chord[1].notes # <<>>}

\* C11: exportSongAsMidi emits one note event per beat that holds a chord with
\* at least one note, in song order; the event of such a beat starts at the
\* ticks of all beats before it and lasts the beat's own ticks; a beat without
\* a chord emits nothing and still moves the cursor by its ticks.
C11_MidiEventsFollowBeats ==
    midi.calls > 0 =>
        LET events == IF midi.track = <<>> THEN <<>> ELSE midi.track[1].events
            beats == SongBeats(midi.song[1].sections)
            chordBeats == SoundingBeats(beats)
        IN  /\ Len(events) = Cardinality(chordBeats)
            /\ midi.track # <<>> =>
                   midi.track[1].tickPosition = TicksOfFirst(beats, Len(beats))
            /\ \A j \in chordBeats :
                   LET event == events[Cardinality({i \in chordBeats : i <= j})]
                   IN  /\ event.startTick = TicksOfFirst(beats, j - 1)
                       /\ event.duration = NearestTicks(beats[j].duration)
                       /\ Len(event.pitch) = Len(beats[j].chord[1].notes)

-----------------------------------------------------------------------------
(* Properties of the render duration *)

RECURSIVE GCD(_, _)
GCD(a, b) == IF b = 0 THEN a ELSE GCD(b, a % b)

\* a number of seconds in lowest terms
Reduced(seconds) ==
    LET g == GCD(seconds.num, seconds.den)
    IN  [num |-> seconds.num \div g, den |-> seconds.den \div g]

\* the duration units of all beats of a song, rests included, added up measure
\* by measure
TotalUnits(song) ==
    SumSeq([s \in 1..Len(song.sections) |->
        SumSeq([k \in 1..Len(song.sections[s].measures) |->
            SumSeq([b \in 1..Len(song.sections[s].measures[k].beats) |->
                song.sections[s].measures[k].beats[b].duration])])])

\* C12: the duration an export renders for is (sum of all beat durations,
\* rests included) * (60 / tempo) + 2 seconds: with the 2-second tail taken
\* off and multiplied by the tempo it is 60 times the song's beats.
C12_RenderDuration ==
    exp.pc # "idle" =>
        LET d == Reduced(exp.duration)
        IN  /\ d.den > 0
            /\ (d.num - 2 * d.den) * exp.song.tempo * DurScale
                   = 60 * TotalUnits(exp.song) * d.den

\* a finished render of a song with chords and rests at 90 BPM
C12_Witness ==
    /\ exp.rendered
    /\ exp.song = SongAt90
    /\ Reduced(exp.duration).den # 1

-----------------------------------------------------------------------------
(* Properties of the WAV encoder *)

\* the little-endian unsigned integer held by n bytes from a 0-based offset
RECURSIVE LittleEndian(_, _, _)
LittleEndian(bytes, offset, n) ==
    IF n = 0 THEN 0
    ELSE bytes[offset + 1] + 256 * LittleEndian(bytes, offset + 1, n - 1)

\* the signed 16-bit integer held by two bytes
SignedLittleEndian16(bytes, offset) ==
    LET u == LittleEndian(bytes, offset, 2)
    IN  IF u >= 32768 THEN u - 65536 ELSE u

\* the characters at a 0-based offset, as char codes
FourCodes(bytes, offset) == SubSeq(bytes, offset + 1, offset + 4)

\* C13: for L frames, C channels and rate R the file is 44 + 2*L*C bytes:
\* 'RIFF', 36 + 2*L*C, 'WAVE', 'fmt ', 16, format 1, C, R, R*C*2, C*2, 16,
\* 'data', 2*L*C, then little-endian 16-bit samples with frame i of channel c
\* at sample index i*C + c.
C13_WavLayout ==
    wavOut # <<>> =>
        LET b == wavIn[1]
            bytes == wavOut[1].bytes
            L == b.length
            C == b.numberOfChannels
            R == b.sampleRate
        IN  /\ Len(bytes) = 44 + 2 * L * C
            /\ wavOut[1].size = Len(bytes)
            /\ \A k \in 1..Len(bytes) : bytes[k] \in 0..255
            /\ FourCodes(bytes, 0) = <<82, 73, 70, 70>>
            /\ LittleEndian(bytes, 4, 4) = 36 + 2 * L * C
            /\ FourCodes(bytes, 8) = <<87, 65, 86, 69>>
            /\ FourCodes(bytes, 12) = <<102, 109, 116, 32>>
            /\ LittleEndian(bytes, 16, 4) = 16
            /\ LittleEndian(bytes, 20, 2) = 1
            /\ LittleEndian(bytes, 22, 2) = C
            /\ LittleEndian(bytes, 24, 4) = R
            /\ LittleEndian(bytes, 28, 4) = R * C * 2
            /\ LittleEndian(bytes, 32, 2) = C * 2
            /\ LittleEndian(bytes, 34, 2) = 16
            /\ FourCodes(bytes, 36) = <<100, 97, 116, 97>>
            /\ LittleEndian(bytes, 40, 4) = 2 * L * C
            /\ \A i \in 0..(L - 1), c \in 0..(C - 1) :
                   SignedLittleEndian16(bytes, 44 + 2 * (i * C + c))
                       = floatTo16Bit(b.channelData[c + 1][i + 1])

\* an encoded buffer of two channels and two frames whose second channel
\* differs from its first in the first frame
C13_Witness ==
    /\ wavOut # <<>>
    /\ wavIn[1].numberOfChannels = 2
    /\ wavIn[1].length = 2
    /\ wavIn[1].channelData[2][1] # wavIn[1].channelData[1][1]
    /\ wavIn[1].channelData[2][1] # wavIn[1].channelData[1][2]

\* the value of a sample as the file holds it, by sample index
WavSample(k) == SignedLittleEndian16(wavOut[1].bytes, 44 + 2 * (k - 1))

\* C14: every sample is quantized to an integer in [-32768, 32767]; a value
\* at or below -1 becomes -32768, a value at or above +1 becomes 32767, and no
\* value comes out with the opposite sign.
C14_QuantizationClamps ==
    wavOut # <<>> =>
        LET b == wavIn[1]
            C == b.numberOfChannels
        IN  \A i \in 1..b.length, c \in 1..C :
                LET x == b.channelData[c][i]
                    q == WavSample((i - 1) * C + c)
                    low == x.kind = "-Infinity"
                               \/ (x.kind = "finite" /\ x.units <= -SampleScale)
                    high == x.kind = "Infinity"
                               \/ (x.kind = "finite" /\ x.units >= SampleScale)
                    negative == x.kind = "-Infinity" \/ (x.kind = "finite" /\ x.units < 0)
                    positive == x.kind = "Infinity" \/ (x.kind = "finite" /\ x.units > 0)
                IN  /\ q \in -32768..32767
                    /\ low => q = -32768
                    /\ high => q = 32767
                    /\ negative => q <= 0
                    /\ positive => q >= 0

\* an encoded buffer that holds a sample beyond full scale
C14_Witness ==
    /\ wavOut # <<>>
    /\ \E c \in 1..wavIn[1].numberOfChannels, i \in 1..wavIn[1].length :
           LET x == wavIn[1].channelData[c][i]
           IN  x.kind = "finite" /\ x.units > SampleScale

-----------------------------------------------------------------------------
(* Properties of the tempo and of the wheel rotation *)

\* C16: after any sequence of setTempo, loadSong and newSong the song's tempo
\* is greater than 0, so that 60 / tempo is defined and finite.
C16_TempoPositive ==
    /\ currentSong.tempo > 0
    /\ tempo > 0

\* C19: in rotating mode the wheel rotation is congruent modulo 360 to -30
\* times the circle-of-fifths index of the selected key.
C19_RotationMatchesKey ==
    (wheelMode = "rotating" /\ CircleIndexOf(selectedKey) # -1)
        => (wheelRotation + 30 * CircleIndexOf(selectedKey)) % 360 = 0

-----------------------------------------------------------------------------
(* Properties of the diatonic highlight *)

\* the ring a segment lies in
RingOf(type) ==
    CASE type = "major" -> "major"
      [] type \in {"ii", "iii"} -> "minor"
      [] type = "dim" -> "diminished"

\* the highlighted chords of a key as the wheel marks them: position, ring
\* and numeral
MarksOf(keyIndex) ==
    {[position |-> s.position, ring |-> RingOf(s.type), numeral |-> s.numeral] :
        s \in HighlightedSegments(keyIndex)}

\* C17: for the key at position k the wheel marks I, vi and vii(dim) at k,
\* IV at (k-1) mod 12, V at (k+1) mod 12, ii in the minor ring at (k-1) mod 12
\* and iii in the minor ring at k.
C17_DiatonicPositions ==
    wheelOut # <<>> =>
        LET k == CircleIndexOf(wheelIn[1].key)
        IN  MarksOf(k) =
                {[position |-> k, ring |-> "major", numeral |-> "I"],
                 [position |-> k, ring |-> "minor", numeral |-> "vi"],
                 [position |-> k, ring |-> "diminished", numeral |-> "viio"],
                 [position |-> (k + 11) % 12, ring |-> "major", numeral |-> "IV"],
                 [position |-> (k + 1) % 12, ring |-> "major", numeral |-> "V"],
                 [position |-> (k + 11) % 12, ring |-> "minor", numeral |-> "ii"],
                 [position |-> k, ring |-> "minor", numeral |-> "iii"]}

\* C18: for each of the 12 keys exactly 7 segments are diatonic, they carry
\* the seven distinct numerals, and the segment labelled I sits at the key's
\* own wheel position.
C18_SevenDistinctNumerals ==
    wheelOut # <<>> =>
        LET k == CircleIndexOf(wheelIn[1].key)
            segments == HighlightedSegments(k)
        IN  /\ Cardinality({<<s.position, s.type>> : s \in segments}) = 7
            /\ {s.numeral : s \in segments} = {"I", "ii", "iii", "IV", "V", "vi", "viio"}
            /\ {s.position : s \in {x \in segments : x.numeral = "I"}} = {k}
            /\ CIRCLE_OF_FIFTHS[k + 1] = wheelIn[1].key
            /\ wheelOut[1].isDiatonic <=>
                   \E s \in segments : /\ s.position = wheelIn[1].position
                                       /\ s.type = wheelIn[1].type
                                       /\ s.numeral = wheelOut[1].numeral

\* the left minor slot of the V position rendered for the wrap-around key F
C18_Witness ==
    /\ wheelOut # <<>>
    /\ wheelIn[1].key = "F"
    /\ wheelIn[1].position = 0
    /\ wheelIn[1].type = "ii"
    /\ wheelOut[1].isDiatonic
    /\ wheelOut[1].numeral = "vi"

-----------------------------------------------------------------------------
(* Properties of the effects chain *)

\* C20: every stage that has an amount or mix setting is fully dry (wet 0)
\* when that setting is 0, so that its output is its input.
C20_ZeroSettingIsDry ==
    fxOut # <<>> =>
        \A stage \in DOMAIN StageSetting :
            fxIn[1][StageSetting[stage]] = Num(0) => fxOut[1].wet[stage] = Num(0)

\* where a stage belongs in the order tone-shaping, modulation, time-based,
\* limiter
StageRank(stage) ==
    CASE stage \in {"eq", "gain"} -> 1
      [] stage \in {"delay", "reverb"} -> 3
      [] stage = "limiter" -> 4
      [] OTHER -> 2

\* the nodes met on the way from a node to the destination, the node first
RECURSIVE PathFrom(_, _, _)
PathFrom(node, connections, fuel) ==
    IF node = "destination" \/ fuel = 0 THEN <<>>
    ELSE LET next == {c \in connections : c[1] = node}
         IN  IF next = {} THEN <<node>>
             ELSE <<node>> \o PathFrom((CHOOSE c \in next : TRUE)[2], connections, fuel - 1)

\* C21: the chain is linear - every stage feeds exactly one successor, only
\* the limiter feeds the destination, the way from the input to the
\* destination meets every stage once - and it runs from tone-shaping (EQ,
\* gain) through the modulation effects and the time-based effects to the
\* limiter.
C21_LinearChainInOrder ==
    fxOut # <<>> =>
        LET chain == fxOut[1]
            stages == {chain.nodes[k] : k \in 1..Len(chain.nodes)}
            path == PathFrom(chain.input, chain.connections, Len(chain.nodes) + 1)
        IN  /\ \A s \in stages : Cardinality({c \in chain.connections : c[1] = s}) = 1
            /\ {c[1] : c \in {x \in chain.connections : x[2] = "destination"}} = {"limiter"}
            /\ Len(path) = Cardinality(stages)
            /\ {path[k] : k \in 1..Len(path)} = stages
            /\ \A k \in 1..(Len(path) - 1) : StageRank(path[k]) <= StageRank(path[k + 1])

-----------------------------------------------------------------------------
(* Properties of the auth store *)

\* C24: in password-recovery mode a listener event other than USER_UPDATED or
\* SIGNED_OUT leaves isPasswordRecovery true and the auth modal open on the
\* 'update_password' view.
C24_RecoverySurvivesOtherEvents ==
    [][(/\ auth.isPasswordRecovery
        /\ authProc'.last.kind = "event"
        /\ authProc'.last.event \notin {"USER_UPDATED", "SIGNED_OUT"})
          => /\ auth'.isPasswordRecovery
             /\ auth'.isAuthModalOpen
             /\ auth'.authDefaultView = "update_password"]_vars

\* recovery mode has survived a SIGNED_IN event
C24_Witness ==
    /\ auth.isPasswordRecovery
    /\ authProc.last = [kind |-> "event", event |-> "SIGNED_IN"]
    /\ auth.isAuthModalOpen
    /\ auth.authDefaultView = "update_password"

\* C25: once a USER_UPDATED or SIGNED_OUT event has been processed,
\* isPasswordRecovery stays false until a PASSWORD_RECOVERY event arrives,
\* whatever initialize still has to do.
C25_ExitFromRecoveryIsKept ==
    authProc.exited => ~auth.isPasswordRecovery

\* C26: isPasswordRecovery = true implies that the auth modal is open on the
\* 'update_password' view.
C26_RecoveryShowsUpdatePassword ==
    auth.isPasswordRecovery =>
        (auth.isAuthModalOpen /\ auth.authDefaultView = "update_password")

-----------------------------------------------------------------------------
(* Properties of the offline export *)

\* C22: two offline exports of the same song, effect settings, instrument and
\* export options have the same trigger schedule and byte-identical encoded
\* output.
C22_ExportIsDeterministic ==
    (Len(renderOut) = 2 /\ renderOut[1].pc = "done" /\ renderOut[2].pc = "done") =>
        /\ renderOut[1].schedule = renderOut[2].schedule
        /\ renderOut[1].blob = renderOut[2].blob

-----------------------------------------------------------------------------
(* Properties of the selection *)

\* C23: whenever selectedSectionId and selectedSlotId are both non-null, the
\* current song has a section with that id holding a beat with that slot id.
C23_SelectionExists ==
    (selectedSectionId # NoId /\ selectedSlotId # NoId) =>
        \E i \in 1..Len(currentSong.sections) :
            /\ currentSong.sections[i].id = selectedSectionId
            /\ \E b \in 1..Len(SectionBeats(currentSong.sections[i])) :
                   SectionBeats(currentSong.sections[i])[b].id = selectedSlotId

-----------------------------------------------------------------------------
(* Properties of moveChord *)

\* how many beats hold the chord
CountOfChord(beats, chord) == Len(SelectSeq(beats, LAMBDA b : b.chord = chord))

\* the song with every slot emptied: what a chord move must leave alone
WithoutChords(song) ==
    WithSections(song,
        MapSeq(song.sections, LAMBDA section :
            [section EXCEPT !.measures =
                MapSeq(section.measures, LAMBDA measure :
                    [measure EXCEPT !.beats =
                        MapSeq(measure.beats, LAMBDA beat :
                            [beat EXCEPT !.chord = NoChord])])]))

\* C27: moveChord(from, to) on two slots of the song exchanges their chords
\* and changes nothing else: ids, durations and the other beats' chords stay,
\* the multiset of chords is preserved, the same move made twice restores the
\* song, and with both slots empty the song is unchanged.
C27_MoveChordSwaps ==
    \A fromSlotId \in AllSlotArgs, toSlotId \in AllSlotArgs :
        LET moved == moveChordResult(currentSong, fromSlotId, toSlotId)
            before == SongBeats(currentSong.sections)
            after == SongBeats(moved.sections)
        IN  /\ ChordOfSlot(moved.sections, fromSlotId)
                   = ChordOfSlot(currentSong.sections, toSlotId)
            /\ ChordOfSlot(moved.sections, toSlotId)
                   = ChordOfSlot(currentSong.sections, fromSlotId)
            /\ WithoutChords(moved) = WithoutChords(currentSong)
            /\ \A k \in 1..Len(before) :
                   before[k].id \notin {fromSlotId, toSlotId} =>
                       after[k].chord = before[k].chord
            /\ \A chord \in {b.chord : b \in {before[k] : k \in 1..Len(before)}} :
                   CountOfChord(after, chord) = CountOfChord(before, chord)
            /\ moveChordResult(moved, fromSlotId, toSlotId) = currentSong
            /\ (/\ ChordOfSlot(currentSong.sections, fromSlotId) = NoChord
                /\ ChordOfSlot(currentSong.sections, toSlotId) = NoChord)
                   => moved = currentSong

\* two slots hold different chords, and moving one onto the other changes the
\* song
C27_Witness ==
    \E fromSlotId \in AllSlotArgs, toSlotId \in AllSlotArgs :
        /\ ChordOfSlot(currentSong.sections, fromSlotId) # NoChord
        /\ ChordOfSlot(currentSong.sections, toSlotId) # NoChord
        /\ ChordOfSlot(currentSong.sections, fromSlotId)
               # ChordOfSlot(currentSong.sections, toSlotId)
        /\ moveChordResult(currentSong, fromSlotId, toSlotId) # currentSong

-----------------------------------------------------------------------------
(* Properties of the tempo *)

\* C28: after any sequence of store operations the store's top-level tempo
\* equals currentSong.tempo.
C28_TempoMatchesSong == tempo = currentSong.tempo

\* the tempo has been set to 90 on a song whose sections were edited
C28_Witness ==
    /\ tempo = 90
    /\ currentSong.tempo = 90
    /\ currentSong.sections # DEFAULT_SONG.sections

-----------------------------------------------------------------------------
(* MIDI export against audio export *)

\* C29: the MIDI export and the audio export of a song sound the same beats
\* in the same order, each at the same musical offset: the MIDI start tick is
\* 128 times the summed duration of the beats before it (taken to the nearest
\* tick where that is no whole number) and the audio start time is
\* secondsPerBeat times that sum.
C29_MidiAndAudioAgree ==
    midi.track # <<>> =>
        LET events == midi.track[1].events
            triggers == ExportSchedule(midi.song[1])
        IN  /\ Len(events) = Len(triggers)
            /\ \A k \in 1..Len(events) :
                   LET unitsBefore == triggers[k].time.num \div 60
                       off == events[k].startTick * DurScale - 128 * unitsBefore
                   IN  /\ events[k].pitch = MapSeq(triggers[k].notes, noteToMidiPitch)
                       /\ triggers[k].time = Seconds(unitsBefore * 60,
                                                     midi.song[1].tempo * DurScale)
                       /\ 2 * off <= DurScale
                       /\ -2 * off <= DurScale

-----------------------------------------------------------------------------
(* Properties of the instrument registry *)

\* C30: under every interleaving of initAudio and playChord calls each of the
\* four instruments is constructed at most once, and once an initAudio has
\* passed its guard all four registry entries are non-null and stay so.
C30_InstrumentsBuiltOnce ==
    /\ \A n \in InstrumentNames : constructed[n] <= 1
    /\ (\E n \in InstrumentNames : constructed[n] > 0 \/ instruments[n] # "null")
           => \A n \in InstrumentNames : instruments[n] # "null" /\ constructed[n] = 1

====
